---- MODULE Spec2Model ----
(***************************************************************************)
(* A model of ScriptHost (src/unnamed/part_004, lines 418-1033): the host  *)
(* side of a sandboxed script evaluator.  The host correlates requests     *)
(* with responses, tracks idleness, and invalidates evaluations whose      *)
(* dependencies were written by later evaluations.                         *)
(*                                                                         *)
(* The host's private fields are the variables.  Every method is an        *)
(* operator from a host state (a record of all the fields) to the host     *)
(* state it leaves behind, so that the sequential composition of the code  *)
(* is function composition here.  An action is one synchronous run of the  *)
(* code: a public call up to its first await, the continuation of an       *)
(* await, a timer callback, or the handling of one inbound message.        *)
(*                                                                         *)
(* The sandbox and its bridge are not part of the repository: inbound      *)
(* messages are inputs, drawn from small sets.  Only the identifiers of    *)
(* init and eval requests are counted by messageIdCounter; identifiers of  *)
(* the host's replies (pong, continue, return, error) are never used as    *)
(* keys and are left abstract.                                             *)
(*                                                                         *)
(* Four specifications share the actions: Spec (the life cycle: requests,  *)
(* responses, timeouts, reset, dispose), SpecTracking (invalidation:       *)
(* write observers, refresh timers, exposed functions), SpecRace           *)
(* (concurrent evaluations whose responses arrive in any order) and        *)
(* SpecResetting (invalidation callbacks that call reset on the host).     *)
(* The variable history says which history variables a specification       *)
(* records.                                                                *)
(***************************************************************************)
EXTENDS Integers, Sequences, FiniteSets, TLC

\* ------------------------------------------------------------------ bounds
MaxMsgId     == 3   \* init and eval requests issued over the host's life
MaxVersion   == 1   \* variable versions are 0..MaxVersion
MaxSandboxes == 3   \* sandboxes created by the factory over the host's life
MaxTracked   == 1   \* variables reported by one message
MaxInitCalls == 1   \* init() calls awaiting one init promise at a time
MaxRunning   == 1   \* exposed functions in flight at a time
MaxObserveIds == 5  \* init and eval requests issued where scripts are observed
MaxObservations == 1 \* observe() calls over the host's life
MaxPingIds == 4     \* init and eval requests issued where pings are studied
MaxExits     == 1   \* exit callbacks waiting in one queue

\* --------------------------------------------------------------- constants
Undefined == -1                     \* "typeof x !== 'number'"
Ids       == 1..MaxObserveIds       \* host-<n> of init and eval requests
Observations == 1..MaxObservations  \* the observe() calls
Sandboxes == 1..MaxSandboxes
Versions  == 0..MaxVersion
Vars      == {"x", "y"}             \* script variable names
Funcs     == {"f"}                  \* keys of the exposed functions
Inherited == {"toString"}           \* keys of the functions of Object.prototype
Keys      == {"f", "foo", "toString"} \* keys a call request may name
SandboxMsgIds == {"sb-1"}           \* identifiers of sandbox requests
Timeouts  == {0, 1}                 \* a timeout is disabled (<= 0) or set

IsNumber(v) == v # Undefined

\* The maps a message may carry: at most MaxTracked variables.
SmallDomains == {D \in SUBSET Vars : Cardinality(D) <= MaxTracked}

Tracked == {t \in [read : Versions \cup {Undefined}, write : Versions \cup {Undefined}] :
              IsNumber(t.read) \/ IsNumber(t.write)}

TrackedVars == UNION {[D -> Tracked] : D \in SmallDomains}

WrittenMaps == UNION {[D -> Versions] : D \in SmallDomains}

NoRefresh == [kind |-> "absent", value |-> 0]

Refreshes == {NoRefresh, [kind |-> "number", value |-> 0], [kind |-> "number", value |-> 1]}

\* The message texts an error response may carry.
Texts == {"boom", "bang"}

NoResponse == [type |-> "none", inResponseTo |-> 0, vars |-> <<>>, refresh |-> NoRefresh,
               message |-> ""]

\* Responses the bridge may deliver: without vars and refresh, and with them
\* (only evaluation and error responses carry them).
PlainResponses ==
    [type : {"ready", "result", "error", "other"}, inResponseTo : Ids,
     vars : {<<>>}, refresh : {NoRefresh}, message : {""}]

ResponsesTo(id) ==
    [type : {"ready"}, inResponseTo : {id}, vars : {<<>>}, refresh : {NoRefresh},
     message : {""}]
    \cup [type : {"result", "error"}, inResponseTo : {id}, vars : TrackedVars,
          refresh : Refreshes, message : {""}]

Responses == UNION {ResponsesTo(id) : id \in Ids}

\* Call and yield requests the bridge may deliver.
CallRequests ==
    [messageId : SandboxMsgIds, key : Keys, correlationId : Ids, written : WrittenMaps]

YieldRequests == [messageId : SandboxMsgIds, written : WrittenMaps]

\* The ping requests, the yield requests and the requests of a type the
\* host does not know that a sandbox sends where pings are studied.
InboundIds == {"sb-1", "sb-2"}
InboundMessages ==
    [type : {"ping", "foo"}, messageId : InboundIds, written : {<<>>}]
    \cup [type : {"yield"}, messageId : InboundIds, written : WrittenMaps]

NoOp == [name |-> "none", id |-> 0, result |-> "", written |-> <<>>, messageId |-> ""]

VARIABLES
    \* fields of ScriptHost
    factory,            \* #factory !== null
    initTimeout,        \* #initTimeout, as a member of Timeouts
    sandbox,            \* #sandbox: 0 is null, else the instance
    stopListening,      \* #stopListening: 0 is null, else the instance listened to
    initPromise,        \* #initPromise: 0 is null, else the id of the init request
    isInitialized,      \* #isInitialized
    messageIdCounter,   \* #messageIdCounter
    writeObservers,     \* keys of #writeObservers, in insertion order
    responseHandlers,   \* keys of #responseHandlers
    activeScopes,       \* keys of #activeScopes
    \* one promise and timer per #waitForResponse
    request,            \* request.type of each id
    promise,            \* pending | resolved | timeout | remote | unexpected
    timeoutId,          \* ids whose timeout timer is armed
    response,           \* the response a promise resolved with
    \* closure variables of each eval call, by the call's messageId
    pc,                 \* none | awaitInit | awaitResponse | done
    awaiting,           \* the init promise #ensureInitialized awaits
    onInvalidated,      \* options.onInvalidated: absent | returns | resets | observes | throws
    invalidated,
    refreshTimer,       \* refreshTimer !== undefined
    observer,           \* observer !== undefined
    dependencies,
    active,
    outcome,            \* how the promise returned by eval settled
    initCalls,          \* init() calls awaiting each init promise
    \* idle listeners
    listener,           \* the caller's idle-change listener: absent | evals | throws
    whenIdle,           \* the promise of a whenIdle call: none, waiting, resolved
    idleTimer,          \* timerId of the whenIdle call is armed
    busy,               \* a request was pending at some moment since it was armed
    \* closure variables of each observe call
    observation,        \* the observe call an eval call was made by, or 0
    obsActive,          \* active
    \* exposed functions
    scopeHeld,          \* evaluations whose scope was handed to a function
    running,            \* functions in flight: the call and the sandbox it replies to
    scriptExit,         \* per evaluation: the script-exit callbacks waiting
    observerExit,       \* per observe call: the observer-exit callbacks waiting
    \* history
    history,            \* which of notified, posted, op and seen are recorded
    idLimit,            \* the requests a behaviour may issue
    postedTo,           \* per request: the sandbox it was posted to, or 0
    observations,       \* calls of observe
    delivered,          \* per observe call: the onNext and onError calls made
    sandboxCount,       \* calls of the factory
    disposals,          \* per sandbox: calls of its dispose()
    called,             \* invocations of each onInvalidated
    seen,               \* per evaluation: the highest version of each variable that
                        \* a response processed since its request was posted wrote
    notified,           \* values passed to the idle listener during the last step
    notifications,      \* values passed to it since the host was constructed
    lastNotified,       \* the last value ever passed to it, if any
    posted,             \* messages posted during the last step
    events,             \* exit callbacks invoked and observed evaluations started
                        \* during the last step, in order
    failure,            \* per request: the message of the error that a response or
                        \* the timeout rejected its promise with, or that eval threw
                        \* for an error response
    received,           \* the response the last step processed, if any
    initFailure,        \* the init request that failed as #initPromise, no reset() since
    pingIntervalId,     \* #pingIntervalId !== null: the ping timer is set
    lastPing,           \* #lastPing !== null
    bridge,             \* whether the bridge of the sandbox answers a request later
                        \* ("deferred") or inside post() ("synchronous")
    op                  \* the last step and its input

vars == <<factory, initTimeout, sandbox, stopListening, initPromise, isInitialized,
          messageIdCounter, writeObservers, responseHandlers, activeScopes,
          request, promise, timeoutId, response,
          pc, awaiting, onInvalidated, invalidated, refreshTimer, observer,
          dependencies, active, outcome, initCalls, observation, obsActive,
          listener, whenIdle, idleTimer, busy,
          scopeHeld, running, scriptExit, observerExit, events, failure,
          received, bridge, pingIntervalId, lastPing, initFailure,
          history, idLimit, postedTo, observations,
          delivered, sandboxCount, disposals, called, seen, notified, notifications,
          lastNotified,
          posted, op>>

\* The host state as one record, with the exception that is propagating
\* through the running code, if any (thrown).
Now ==
    [factory |-> factory, initTimeout |-> initTimeout, sandbox |-> sandbox,
     stopListening |-> stopListening, initPromise |-> initPromise,
     isInitialized |-> isInitialized, messageIdCounter |-> messageIdCounter,
     writeObservers |-> writeObservers, responseHandlers |-> responseHandlers,
     activeScopes |-> activeScopes, request |-> request, promise |-> promise,
     timeoutId |-> timeoutId, response |-> response, pc |-> pc, awaiting |-> awaiting,
     onInvalidated |-> onInvalidated, invalidated |-> invalidated,
     refreshTimer |-> refreshTimer, observer |-> observer,
     dependencies |-> dependencies, active |-> active, outcome |-> outcome,
     initCalls |-> initCalls, scopeHeld |-> scopeHeld, running |-> running,
     scriptExit |-> scriptExit, observerExit |-> observerExit, events |-> events,
     failure |-> failure, received |-> received, bridge |-> bridge,
     pingIntervalId |-> pingIntervalId, lastPing |-> lastPing,
     observation |-> observation, obsActive |-> obsActive, idLimit |-> idLimit,
     postedTo |-> postedTo, listener |-> listener, whenIdle |-> whenIdle,
     idleTimer |-> idleTimer, busy |-> busy,
     observations |-> observations, delivered |-> delivered,
     history |-> history, sandboxCount |-> sandboxCount, disposals |-> disposals,
     called |-> called,
     seen |-> seen, notified |-> notified, notifications |-> notifications,
     lastNotified |-> lastNotified, posted |-> posted, op |-> op,
     thrown |-> FALSE]

\* The host state at the start of a step: the step's history is empty.
Begin(o) == [Now EXCEPT !.notified = <<>>, !.posted = <<>>, !.events = <<>>,
                        !.received = NoResponse, !.op = o]

\* The counters of s are within the bounds of the model.
InBounds(s) ==
    /\ s.messageIdCounter <= s.idLimit
    /\ s.observations <= MaxObservations
    /\ s.sandboxCount <= MaxSandboxes
    /\ \A p \in Ids : s.initCalls[p] <= MaxInitCalls
    /\ Cardinality(s.running) <= MaxRunning
    /\ \A id \in Ids : s.scriptExit[id] <= MaxExits
    /\ \A o \in Observations : s.observerExit[o] <= MaxExits

\* A promise in state p is rejected.
Rejected(p) == p \in {"timeout", "remote", "unexpected"}

\* The step ends in host state s.
Step(s) ==
    /\ InBounds(s)
    /\ factory' = s.factory
    /\ initTimeout' = s.initTimeout
    /\ sandbox' = s.sandbox
    /\ stopListening' = s.stopListening
    /\ initPromise' = s.initPromise
    /\ isInitialized' = s.isInitialized
    /\ messageIdCounter' = s.messageIdCounter
    /\ writeObservers' = s.writeObservers
    /\ responseHandlers' = s.responseHandlers
    /\ activeScopes' = s.activeScopes
    /\ request' = s.request
    /\ promise' = s.promise
    /\ timeoutId' = s.timeoutId
    /\ response' = s.response
    /\ pc' = s.pc
    /\ awaiting' = s.awaiting
    /\ onInvalidated' = s.onInvalidated
    /\ invalidated' = s.invalidated
    /\ refreshTimer' = s.refreshTimer
    /\ observer' = s.observer
    /\ dependencies' = s.dependencies
    /\ active' = s.active
    /\ outcome' = s.outcome
    /\ initCalls' = s.initCalls
    /\ scopeHeld' = s.scopeHeld
    /\ running' = s.running
    /\ scriptExit' = s.scriptExit
    /\ observerExit' = s.observerExit
    /\ events' = IF "events" \in s.history THEN s.events ELSE <<>>
    /\ failure' = IF "failure" \in s.history THEN s.failure ELSE [i \in Ids |-> <<>>]
    /\ received' = IF "received" \in s.history THEN s.received ELSE NoResponse
    /\ bridge' = s.bridge
    /\ pingIntervalId' = s.pingIntervalId
    /\ initFailure' = IF "initFailure" \notin s.history THEN 0
                      ELSE IF s.op.name = "reset" /\ s.op.result # "disposed" THEN 0
                      ELSE IF s.initPromise # 0 /\ Rejected(s.promise[s.initPromise])
                      THEN s.initPromise
                      ELSE initFailure
    /\ lastPing' = s.lastPing
    /\ history' = s.history
    /\ idLimit' = s.idLimit
    /\ postedTo' = s.postedTo
    /\ listener' = s.listener
    /\ whenIdle' = s.whenIdle
    /\ idleTimer' = s.idleTimer
    /\ busy' = s.busy
    /\ observation' = s.observation
    /\ obsActive' = s.obsActive
    /\ observations' = s.observations
    /\ delivered' = s.delivered
    /\ sandboxCount' = s.sandboxCount
    /\ disposals' = s.disposals
    /\ called' = s.called
    /\ seen' = s.seen
    /\ notified' = IF "notified" \in s.history THEN s.notified ELSE <<>>
    /\ notifications' = IF "notifications" \in s.history THEN s.notifications ELSE <<>>
    /\ lastNotified' = IF s.notified = <<>> \/ "notified" \notin s.history
                       THEN s.lastNotified
                       ELSE <<s.notified[Len(s.notified)]>>
    /\ posted' = IF "posted" \in s.history THEN s.posted ELSE <<>>
    /\ op' = IF "op" \in s.history THEN s.op ELSE NoOp

\* The host after its constructor, but for the options.
Constructed ==
    /\ factory = TRUE
    /\ sandbox = 0
    /\ stopListening = 0
    /\ initPromise = 0
    /\ isInitialized = FALSE
    /\ messageIdCounter = 0
    /\ writeObservers = <<>>
    /\ responseHandlers = {}
    /\ activeScopes = {}
    /\ request = [i \in Ids |-> "none"]
    /\ promise = [i \in Ids |-> "none"]
    /\ timeoutId = {}
    /\ response = [i \in Ids |-> NoResponse]
    /\ pc = [i \in Ids |-> "none"]
    /\ awaiting = [i \in Ids |-> 0]
    /\ onInvalidated = [i \in Ids |-> "absent"]
    /\ invalidated = [i \in Ids |-> FALSE]
    /\ refreshTimer = [i \in Ids |-> FALSE]
    /\ observer = [i \in Ids |-> FALSE]
    /\ dependencies = [i \in Ids |-> <<>>]
    /\ active = [i \in Ids |-> FALSE]
    /\ outcome = [i \in Ids |-> "none"]
    /\ initCalls = [i \in Ids |-> 0]
    /\ postedTo = [i \in Ids |-> 0]
    /\ whenIdle = "none"
    /\ idleTimer = FALSE
    /\ busy = FALSE
    /\ observation = [i \in Ids |-> 0]
    /\ obsActive = [o \in Observations |-> FALSE]
    /\ observations = 0
    /\ delivered = [o \in Observations |-> <<>>]
    /\ scopeHeld = {}
    /\ running = {}
    /\ scriptExit = [i \in Ids |-> 0]
    /\ observerExit = [o \in Observations |-> 0]
    /\ events = <<>>
    /\ failure = [i \in Ids |-> <<>>]
    /\ received = NoResponse
    /\ pingIntervalId = FALSE
    /\ initFailure = 0
    /\ lastPing = FALSE
    /\ sandboxCount = 0
    /\ disposals = [b \in Sandboxes |-> 0]
    /\ called = [i \in Ids |-> 0]
    /\ seen = [i \in Ids |-> [k \in Vars |-> Undefined]]
    /\ notified = <<>>
    /\ notifications = <<>>
    /\ lastNotified = <<>>
    /\ posted = <<>>
    /\ op = NoOp

Init ==
    /\ Constructed
    /\ initTimeout \in Timeouts
    /\ listener = "absent"
    /\ idLimit = MaxMsgId
    /\ history = {"notified", "posted", "op"}
    /\ bridge = "deferred"

\* ----------------------------------------------------------------- helpers

\* get isIdle
isIdle == responseHandlers = {}

\* get isDisposed
isDisposed == ~factory

\* sandbox.post(message) on instance b
Post(s, b, type, id, inResponseTo) ==
    LET s1 == [s EXCEPT !.posted = Append(@, [type |-> type, messageId |-> id,
                                              inResponseTo |-> inResponseTo, to |-> b,
                                              message |-> <<>>])]
    IN  IF id \in Ids THEN [s1 EXCEPT !.postedTo[id] = b] ELSE s1

\* A handler that drops its reply.
NoReply(s, b, type, inResponseTo, message) == s

\* sandbox.post(response) on instance b, for the reply to a request of the
\* sandbox; message is the text of an error, in parts.
Reply(s, b, type, inResponseTo, message) ==
    [s EXCEPT !.posted = Append(@, [type |-> type, messageId |-> 0,
                                    inResponseTo |-> inResponseTo, to |-> b,
                                    message |-> message])]

\* #handleMessage(message), "this.#lastPing = Date.now()", which a host
\* without a sandbox does not reach.
Arrived(s) == IF s.sandbox = 0 THEN s ELSE [s EXCEPT !.lastPing = TRUE]

\* #notifyIdle(value): every listener is called with value (defined with
\* the listeners, below eval).
RECURSIVE NotifyIdle(_, _)

\* A registration that notifies at every request.
BecameBusyAlways(s) == TRUE

\* Whether #waitForResponse notifies the idle listeners: the entry it
\* registered is the only one.
BecameBusy(s) == Cardinality(s.responseHandlers) = 1

\* #waitForResponse(request, predicate, timeout): the promise executor.
WaitForResponse(s, id, type, timeout) ==
    LET s1 == [s EXCEPT !.timeoutId = IF timeout > 0 THEN @ \cup {id} ELSE @,
                        !.request[id] = type,
                        !.promise[id] = "pending",
                        !.responseHandlers = @ \cup {id},
                        !.busy = @ \/ s.idleTimer]
    IN  IF BecameBusy(s1) THEN NotifyIdle(s1, FALSE) ELSE s1

\* The callback of the timeout timer: reject(new Error("Did not receive ...")).
\* A settled promise stays as it is.
TimeoutFired(s, id) ==
    [s EXCEPT !.timeoutId = @ \ {id},
              !.promise[id] = IF @ = "pending" THEN "timeout" ELSE @,
              !.failure[id] = IF s.promise[id] = "pending"
                              THEN <<"Did not receive a response within the specified timeout">>
                              ELSE @]

\* ----------------------------------------------------- disposal, callbacks

\* An #assertNotDisposed() that never throws.
NotDisposedEver(s) == TRUE

\* #assertNotDisposed() does not throw.
NotDisposed(s) == s.factory

\* #disposeSandbox()
DisposeSandbox(s) ==
    LET s1 == [s EXCEPT !.stopListening = 0,
                        !.disposals = IF s.sandbox # 0
                                      THEN [@ EXCEPT ![s.sandbox] = @ + 1]
                                      ELSE @,
                        !.sandbox = 0,
                        !.pingIntervalId = FALSE]
        s2 == IF s1.responseHandlers # {}
              THEN NotifyIdle([s1 EXCEPT !.responseHandlers = {}], TRUE)
              ELSE s1
    IN  [s2 EXCEPT !.writeObservers = <<>>, !.initPromise = 0, !.lastPing = FALSE]

\* ------------------------------------------------------------ eval, observe

\* An #ensureInitialized() that posts an init request at every call.
NeedsInitAlways(s) == TRUE

\* Whether #ensureInitialized() posts an init request.
NeedsInit(s) == s.initPromise = 0

\* The bridge answers the request id inside post().
RECURSIVE Answered(_, _, _)

\* sandbox.post(request) for an init or eval request: a synchronous bridge
\* calls the listener of the host before post() returns.
Request(s, b, type, id) ==
    IF s.bridge = "synchronous"
    THEN Answered(Post(s, b, type, id, 0), type, id)
    ELSE Post(s, b, type, id, 0)

\* #ensureInitialized() up to its await, on a host that is not disposed.
EnsureInitialized(s) ==
    LET s1 == IF s.sandbox = 0
              THEN [s EXCEPT !.sandboxCount = @ + 1,
                             !.sandbox = s.sandboxCount + 1,
                             !.stopListening = s.sandboxCount + 1,
                             !.pingIntervalId = TRUE]
              ELSE s
    IN  IF NeedsInit(s1)
        THEN LET id == s1.messageIdCounter + 1
                 s2 == WaitForResponse([s1 EXCEPT !.messageIdCounter = id],
                                       id, "init", s1.initTimeout)
             IN  Request([s2 EXCEPT !.initPromise = id], s2.sandbox, "init", id)
        ELSE s1

\* An observation whose callbacks do not look at the active flag.
IsActiveEver(s, o) == TRUE

\* The script-exit callbacks of evaluation id are invoked and their queue
\* is cleared.
ScriptExits(s, id) ==
    IF s.scriptExit[id] > 0
    THEN [s EXCEPT !.events = Append(@, [kind |-> "onScriptExit", of |-> id,
                                         callbacks |-> s.scriptExit[id]]),
                   !.scriptExit[id] = 0]
    ELSE s

\* An observation that keeps its observer-exit callbacks waiting.
NoObserverExits(s, o) == s

\* The observer-exit callbacks of observe call o are invoked and their
\* queue is cleared.
ObserverExits(s, o) ==
    IF s.observerExit[o] > 0
    THEN [s EXCEPT !.events = Append(@, [kind |-> "onObserverExit", of |-> o,
                                         callbacks |-> s.observerExit[o]]),
                   !.observerExit[o] = 0]
    ELSE s

\* onScriptExit(callback) of the scope of evaluation id: the callback is
\* registered while the evaluation runs.
OnScriptExit(s, id) ==
    IF s.active[id] THEN [s EXCEPT !.scriptExit[id] = @ + 1] ELSE s

\* onObserverExit(callback) of the scope of evaluation id: the callback is
\* registered while the evaluation runs for an observation that is active.
OnObserverExit(s, id) ==
    IF s.active[id] /\ s.observation[id] # 0 /\ s.obsActive[s.observation[id]]
    THEN [s EXCEPT !.observerExit[s.observation[id]] = @ + 1]
    ELSE s

\* The active flag of observe call o, as its callbacks test it.
IsActive(s, o) == s.obsActive[o]

\* The callbacks evalNext passes to then, for the evaluation id that
\* settled: onNext with the value, or onError with the error.
Then(s, id, how) ==
    LET o == s.observation[id]
    IN  IF o # 0 /\ IsActive(s, o)
        THEN [s EXCEPT !.delivered[o] =
                 Append(@, [call |-> IF how = "value" THEN "onNext" ELSE "onError",
                            id |-> id])]
        ELSE s

\* The finally block of eval.
EvalFinally(s, id) ==
    ScriptExits([s EXCEPT !.active[id] = FALSE, !.activeScopes = @ \ {id}], id)

\* eval throws or returns.
EvalSettles(s, id, how) ==
    Then([s EXCEPT !.pc[id] = "done", !.outcome[id] = how, !.response[id] = NoResponse,
                   !.op.result = how], id, how)

\* eval(script, options) up to its first await, called by observe call o
\* (evalNext) or by another caller (o = 0).  A call beyond the requests of
\* the model only counts (the bounds then reject the step).
EvalOf(s, cb, timeout, o) ==
    LET id == s.messageIdCounter + 1
        s1 == [s EXCEPT !.messageIdCounter = id,
                        !.events = IF o # 0
                                   THEN Append(@, [kind |-> "eval", of |-> o, callbacks |-> 0])
                                   ELSE @,
                        !.onInvalidated[id] = cb,
                        !.observation[id] = o,
                        !.active[id] = TRUE,
                        !.activeScopes = @ \cup {id}]
        s2 == WaitForResponse(s1, id, "eval", timeout)
    IN  IF id \notin Ids THEN [s EXCEPT !.messageIdCounter = id]
        ELSE IF NotDisposed(s2)
        THEN LET s3 == EnsureInitialized(s2)
             IN  [s3 EXCEPT !.pc[id] = "awaitInit", !.awaiting[id] = s3.initPromise]
        ELSE EvalSettles(EvalFinally(s2, id), id, "disposed")

\* eval(script, options) up to its first await.
Eval(s, cb, timeout) == EvalOf(s, cb, timeout, 0)

\* The caller's idle-change listener, registered before any whenIdle call:
\* absent, or it calls eval when the host has become idle, or it throws.
Listener(s, value) ==
    IF s.listener = "evals" /\ value THEN Eval(s, "absent", 0)
    ELSE IF s.listener = "throws" THEN [s EXCEPT !.thrown = TRUE]
    ELSE s

\* A loop over the listeners that does not catch.
Uncaught(s) == s

\* #notifyIdle(value), the catch clause around the call of a listener.
CatchListener(s) == [s EXCEPT !.thrown = FALSE]

\* check(idle) of a whenIdle call, the listener it registers: the timer is
\* cleared, and set again if idle.  (It is not reached when the loop over
\* the listeners was left by an exception.)
Check(s, idle) ==
    IF s.thrown THEN s
    ELSE IF s.whenIdle = "waiting"
    THEN [s EXCEPT !.idleTimer = idle, !.busy = idle /\ s.responseHandlers # {}]
    ELSE s

\* #notifyIdle(value): every listener is called with value, in the order
\* of registration.
NotifyIdle(s, value) ==
    Check(CatchListener(Listener([s EXCEPT !.notified = Append(@, value),
                                           !.notifications = Append(@, value)],
                                 value)),
          value)

\* whenIdle(debounce) up to its await.
WhenIdle(s) == Check([s EXCEPT !.whenIdle = "waiting"], s.responseHandlers = {})

\* The callback of the timer of whenIdle: resolve(); stop().
IdleTimerFired(s) == [s EXCEPT !.idleTimer = FALSE, !.whenIdle = "resolved"]

\* evalNext of observe call o: eval with the options of the observation;
\* the then callbacks run when the evaluation settles.
EvalNext(s, o) == EvalOf(s, "observes", 0, o)

\* observe(script, options)
Observe(s) ==
    LET o == s.observations + 1
    IN  EvalNext([s EXCEPT !.observations = o, !.obsActive[o] = TRUE], o)

\* The function observe returns.
Cancel(s, o) == ObserverExits([s EXCEPT !.obsActive[o] = FALSE], o)

\* ------------------------------------------------------------ invalidation

\* A dependency set that keeps a variable written at the version read.
DependenciesOrEqual(tracked) ==
    LET D == {k \in DOMAIN tracked :
                /\ IsNumber(tracked[k].read)
                /\ (~IsNumber(tracked[k].write) \/ tracked[k].read >= tracked[k].write)}
    IN  [k \in D |-> tracked[k].read]

\* The dependency set of an evaluation (eval, the loop over vars): the
\* variables read and not written later in the same evaluation.
Dependencies(tracked) ==
    LET D == {k \in DOMAIN tracked :
                /\ IsNumber(tracked[k].read)
                /\ (~IsNumber(tracked[k].write) \/ tracked[k].read > tracked[k].write)}
    IN  [k \in D |-> tracked[k].read]

\* The written set of a response (#handleMessage, the loop over vars).
Written(tracked) ==
    LET D == {k \in DOMAIN tracked : IsNumber(tracked[k].write)}
    IN  [k \in D |-> tracked[k].write]

\* options.onInvalidated(): the caller's callback, which returns, or calls
\* reset() on the host before it returns (what reset() throws on a disposed
\* host is caught by the caller of the callback), or throws.
OnInvalidated(s, id) ==
    LET s1 == [s EXCEPT !.called[id] = @ + 1]
        o == s.observation[id]
    IN  IF s.onInvalidated[id] = "resets" /\ NotDisposed(s1) THEN DisposeSandbox(s1)
        ELSE IF s.onInvalidated[id] = "observes" /\ IsActive(s1, o)
             THEN EvalNext(ObserverExits(ScriptExits(s1, id), o), o)
        ELSE IF s.onInvalidated[id] = "throws" THEN [s1 EXCEPT !.thrown = TRUE]
        ELSE s1

\* The invalidate closure of an eval call, the catch clause around the
\* callback.
CatchInvalidation(s) == [s EXCEPT !.thrown = FALSE]

\* An invalidate closure without the invalidated flag.
MayInvalidateAgain(s, id) == TRUE

\* Whether the invalidate closure of an eval call runs the callback.
MayInvalidate(s, id) == ~s.invalidated[id]

\* An invalidate closure that leaves the refresh timer armed.
UnobserveOnly(s, id) ==
    [s EXCEPT !.writeObservers = IF s.observer[id]
                                 THEN SelectSeq(@, LAMBDA k : k # id)
                                 ELSE @,
              !.observer[id] = FALSE]

\* The invalidate closure of an eval call, after the callback: the refresh
\* timer is cleared and the observer is taken out of the registry.
Unobserve(s, id) ==
    IF s.thrown THEN s
    ELSE [s EXCEPT !.refreshTimer[id] = FALSE,
                   !.writeObservers = IF s.observer[id]
                                      THEN SelectSeq(@, LAMBDA k : k # id)
                                      ELSE @,
                   !.observer[id] = FALSE]

\* The invalidate closure of an eval call.
Invalidate(s, id) ==
    Unobserve(IF MayInvalidate(s, id)
              THEN CatchInvalidation(OnInvalidated([s EXCEPT !.invalidated[id] = TRUE], id))
              ELSE s,
              id)

\* A comparison that takes an equal version for a conflict.
ConflictsOrEqual(written, timestamp) == written >= timestamp

\* Whether a written version conflicts with the version read.
Conflicts(written, timestamp) == written > timestamp

\* What the observer closure of an eval call returns: the host state it
\* leaves, and the invalidated flag.
ObserverReturns(s, id) == <<s, s.invalidated[id]>>

\* #handleWrittenVariables(written), the catch clause around the call of
\* an observer r: keep stays false.
CatchObserver(r) == IF r[1].thrown THEN <<[r[1] EXCEPT !.thrown = FALSE], TRUE>> ELSE r

\* An observer that takes any written variable for a dependency.
ObserverOfAny(s, id, written) ==
    ObserverReturns(IF written # <<>> THEN Invalidate(s, id) ELSE s, id)

\* The observer closure of an eval call: a pair of the host state it leaves
\* and the value it returns.
Observer(s, id, written) ==
    LET hit == \E k \in DOMAIN s.dependencies[id] :
                  k \in DOMAIN written /\ Conflicts(written[k], s.dependencies[id][k])
    IN  ObserverReturns(IF hit THEN Invalidate(s, id) ELSE s, id)

\* #handleWrittenVariables(written), the first loop over the keys, with the
\* set of keys that are done.  The loop iterates over the live map: a key
\* removed before its turn is not visited.
RECURSIVE ObserveAll(_, _, _, _)
RECURSIVE Observed(_, _, _, _)
ObserveAll(s, keys, written, done) ==
    IF keys = <<>> \/ s.thrown THEN <<s, done>>
    ELSE IF \E i \in 1..Len(s.writeObservers) : s.writeObservers[i] = Head(keys)
         THEN Observed(CatchObserver(Observer(s, Head(keys), written)),
                       keys, written, done)
         ELSE ObserveAll(s, Tail(keys), written, done)

\* The first loop after the observer of Head(keys) returned r: the key is
\* done if the observer returned true.
Observed(r, keys, written, done) ==
    ObserveAll(r[1], Tail(keys), written,
               IF r[2] THEN done \cup {Head(keys)} ELSE done)

\* #handleWrittenVariables(written), the second loop: the keys that are
\* done are deleted.
DeleteDone(r) ==
    IF r[1].thrown THEN r[1]
    ELSE [r[1] EXCEPT !.writeObservers = SelectSeq(@, LAMBDA k : k \notin r[2])]

\* #handleWrittenVariables(written)
HandleWrittenVariables(s, written) ==
    DeleteDone(ObserveAll(s, s.writeObservers, written, {}))

\* ------------------------------------------------------- requests, sandbox

\* Every response counts as the expected one.
ExpectedAny(type, m) == TRUE

\* The predicate a request passes to #waitForResponse.
Expected(type, m) ==
    IF type = "init" THEN m.type = "ready" ELSE m.type \in {"result", "error"}

\* The message of the error for a response that is neither the expected one
\* nor an error response.
Unexpected(responseType, requestType) ==
    <<"Received unexpected response '", responseType, "' to request '", requestType, "'">>

\* The handler #waitForResponse registers for a request.
ResponseHandler(s, id, m) ==
    LET s1 == [s EXCEPT !.timeoutId = @ \ {id}]
        settled == IF Expected(s.request[id], m) THEN "resolved"
                   ELSE IF m.type = "error" THEN "remote"
                   ELSE "unexpected"
    IN  IF s1.promise[id] = "pending"
        THEN [s1 EXCEPT !.promise[id] = settled,
                        !.response[id] = IF settled = "resolved" THEN m ELSE @,
                        !.failure[id] = IF settled = "remote" THEN <<m.message>>
                                        ELSE IF settled = "unexpected"
                                        THEN Unexpected(m.type, s.request[id])
                                        ELSE @]
        ELSE s1

\* Whether #handleMessage removes the pending entry after the handler ran.
RemovesEntry(handler) == handler

\* #handleMessage(message) for a response, after the handler and the
\* observers ran: the pending entry is deleted.
DeleteHandler(s, m, handler) ==
    IF s.thrown THEN s
    ELSE IF RemovesEntry(handler)
    THEN LET s3 == [s EXCEPT !.responseHandlers = @ \ {m.inResponseTo}]
         IN  IF s3.responseHandlers = {} THEN NotifyIdle(s3, TRUE) ELSE s3
    ELSE s

\* A #handleMessage that deletes the pending entry before the observers run.
HandleResponseDeletingFirst(s, m) ==
    LET handler == m.inResponseTo \in s.responseHandlers
        s1 == DeleteHandler(IF handler THEN ResponseHandler(s, m.inResponseTo, m) ELSE s,
                            m, handler)
    IN  IF m.type \in {"result", "error"} /\ s1.writeObservers # <<>> /\ m.vars # <<>>
        THEN HandleWrittenVariables(s1, Written(m.vars))
        ELSE s1

\* #handleMessage(message) for a response.
HandleResponse(s, m) ==
    LET handler == m.inResponseTo \in s.responseHandlers
        s1 == IF handler THEN ResponseHandler(s, m.inResponseTo, m) ELSE s
    IN  DeleteHandler(
            IF m.type \in {"result", "error"} /\ s1.writeObservers # <<>> /\ m.vars # <<>>
            THEN HandleWrittenVariables(s1, Written(m.vars))
            ELSE s1,
            m, handler)

\* The listener the host registered runs inside post() with the answer to
\* request id: a ready response to init, an evaluation result to eval.
Answered(s, type, id) ==
    IF s.stopListening # 0
    THEN HandleResponse(Arrived(s), [type |-> IF type = "init" THEN "ready" ELSE "result",
                            inResponseTo |-> id, vars |-> <<>>, refresh |-> NoRefresh,
                            message |-> ""])
    ELSE s

\* What the evaluations in flight could have seen of response m, had they
\* looked: the versions it wrote, for every other evaluation whose request
\* was posted before m was processed.  (History; the host keeps no such record.)
Seen(s, m) ==
    LET written == IF m.type \in {"result", "error"} THEN Written(m.vars) ELSE <<>>
        sent(id) == /\ s.pc[id] \in {"awaitResponse", "done"}
                    /\ s.outcome[id] \in {"none", "value", "remote"}
        high(id, k) == IF k \in DOMAIN written /\ written[k] > s.seen[id][k]
                       THEN written[k]
                       ELSE s.seen[id][k]
    IN  IF "seen" \in s.history
        THEN [s EXCEPT !.seen = [id \in Ids |->
                 IF sent(id) /\ id # m.inResponseTo
                 THEN [k \in Vars |-> high(id, k)]
                 ELSE s.seen[id]]]
        ELSE s

\* #request after "await this.#ensureInitialized()": the rest of
\* #ensureInitialized, then the post.
RequestContinues(s, id) ==
    LET init == s.promise[s.awaiting[id]]
    IN  IF init = "resolved"
        THEN LET s1 == [s EXCEPT !.isInitialized = TRUE]
             IN  IF s1.sandbox = 0
                 THEN EvalSettles(EvalFinally(s1, id), id, "typeerror")
                 ELSE Request([s1 EXCEPT !.pc[id] = "awaitResponse"], s1.sandbox, "eval", id)
        ELSE EvalSettles(EvalFinally(s, id), id, init)

\* A test of the refresh that takes any number.
IsRefreshAny(refresh) == refresh.kind = "number"

\* Whether eval arms a refresh timer for the refresh of a response: it is
\* a number above zero (not absent, not false, not of another type).
IsRefresh(refresh) == refresh.kind = "number" /\ refresh.value > 0

\* Only the response of a successful evaluation counts as carrying vars.
HasVarsOfResult(m) == m.type = "result" /\ m.vars # <<>>

\* "if (vars ...)": the response carries vars, whatever its type.
HasVars(m) == m.vars # <<>>

\* eval after "await this.#request(...)".
EvalContinues(s, id) ==
    LET m == s.response[id]
        s0 == EvalFinally(s, id)
        invalidate == s.onInvalidated[id] # "absent"
        deps == Dependencies(m.vars)
        s1 == IF HasVars(m) /\ invalidate /\ deps # <<>>
              THEN [s0 EXCEPT !.dependencies[id] = deps,
                              !.observer[id] = TRUE,
                              !.writeObservers = Append(@, id)]
              ELSE s0
        s2 == IF IsRefresh(m.refresh) /\ invalidate
              THEN [s1 EXCEPT !.refreshTimer[id] = TRUE]
              ELSE s1
    IN  IF s.promise[id] = "resolved"
        THEN IF m.type = "error"
             THEN EvalSettles([s2 EXCEPT !.failure[id] = <<m.message>>], id, "remote")
             ELSE EvalSettles(s2, id, "value")
        ELSE EvalSettles(s0, id, s.promise[id])

\* dispose()
Dispose(s) == [DisposeSandbox(s) EXCEPT !.factory = FALSE, !.isInitialized = FALSE]

\* reset()
Reset(s) ==
    IF NotDisposed(s) THEN DisposeSandbox(s) ELSE [s EXCEPT !.op.result = "disposed"]

\* init() up to its await.
InitCalled(s) ==
    IF NotDisposed(s)
    THEN LET s1 == EnsureInitialized(s)
         IN  [s1 EXCEPT !.initCalls[s1.initPromise] = @ + 1, !.op.result = ""]
    ELSE [s EXCEPT !.op.result = "disposed"]

\* init() after "await this.#initPromise": the rest of #ensureInitialized.
InitContinues(s, p) ==
    LET s1 == [s EXCEPT !.initCalls[p] = @ - 1, !.op.result = s.promise[p]]
    IN  IF s.promise[p] = "resolved" THEN [s1 EXCEPT !.isInitialized = TRUE] ELSE s1

\* A scope that invalidates while its evaluation is active.
ScopeMayInvalidateAlways(s, id) == TRUE

\* "don't invalidate while active"
ScopeMayInvalidate(s, id) == ~s.active[id]

\* The invalidate member of an active scope (eval, activeScopes.set).
ScopeInvalidate(s, id) ==
    IF ScopeMayInvalidate(s, id) /\ s.onInvalidated[id] # "absent" THEN Invalidate(s, id) ELSE s

\* The callback of the refresh timer: setTimeout(invalidate, refresh).
RefreshFired(s, id) == Invalidate(s, id)

\* this.#funcs[request.key] is a function: #funcs is a frozen copy of the
\* exposed functions in a plain object, whose lookup also finds what the
\* object inherits.
HasFunc(key) == key \in Funcs \cup Inherited

\* #handleFunctionCall(request) after the written variables, with the
\* sandbox b the handler took at its start.
CallFunction(s, b, c) ==
    IF ~HasFunc(c.key)
    THEN Reply(s, b, "error", c.messageId, <<"Cannot call undefined function: ", c.key>>)
    ELSE IF c.correlationId \notin s.activeScopes
    THEN Reply(s, b, "error", c.messageId, <<"Cannot call function from an inactive script">>)
    ELSE [s EXCEPT !.scopeHeld = @ \cup {c.correlationId},
                   !.running = @ \cup {[to |-> b, messageId |-> c.messageId]}]

\* #handleFunctionCall(request) up to "await func.bind(scope)(...)".
HandleFunctionCall(s, c) ==
    IF s.sandbox = 0 THEN s
    ELSE CallFunction(IF c.written # <<>> THEN HandleWrittenVariables(s, c.written) ELSE s,
                      s.sandbox, c)

\* #handleFunctionCall(request) after the await: the function returned
\* (ok) or threw.
FunctionSettles(s, r, ok) ==
    Reply([s EXCEPT !.running = @ \ {r}], r.to, IF ok THEN "return" ELSE "error",
          r.messageId, IF ok THEN <<>> ELSE <<"String(err)">>)

\* #handleYield(request)
HandleYield(s, y) ==
    LET b == s.sandbox
        s1 == IF y.written # <<>> THEN HandleWrittenVariables(s, y.written) ELSE s
    IN  IF b = 0 THEN s ELSE Reply(s1, b, "continue", y.messageId, <<>>)

\* ----------------------------------------------------------------- actions
\* A task of the event loop (an inbound message, a timer callback) runs
\* only when no continuation of an await is ready: promise continuations
\* run before the next task.  Calls of the public methods may happen at
\* any time (a listener or a callback may make them).

EvalReady(id) ==
    \/ pc[id] = "awaitInit" /\ promise[awaiting[id]] # "pending"
    \/ pc[id] = "awaitResponse" /\ promise[id] # "pending"

InitReady(p) == initCalls[p] > 0 /\ promise[p] # "pending"

Quiet == \A id \in Ids : ~EvalReady(id) /\ ~InitReady(id)

\* The requests the sandbox has received and not answered.
Outstanding ==
    {id \in responseHandlers : request[id] = "init" \/ pc[id] = "awaitResponse"}

\* The requests the host has issued.
Issued == 1..messageIdCounter

\* The evaluations the sandbox has received and not answered.
Evaluating == {id \in Outstanding : request[id] = "eval"}

OpOf(name, id, written) ==
    [name |-> name, id |-> id, result |-> "", written |-> written, messageId |-> ""]

\* The step handles the message messageId of the sandbox.
OpOfMessage(name, message) ==
    [OpOf(name, 0, message.written) EXCEPT !.messageId = message.messageId]

\* A caller calls init.
CallInit == Step(InitCalled(Begin(OpOf("init", 0, <<>>))))

\* The continuation of an init call runs.
InitContinue ==
    \E p \in Ids :
        /\ InitReady(p)
        /\ Step(InitContinues(Begin(OpOf("continue", 0, <<>>)), p))

\* A caller calls eval.
CallEval(callbacks, timeouts) ==
    \E cb \in callbacks, timeout \in timeouts :
        Step(Eval(Begin(OpOf("eval", 0, <<>>)), cb, timeout))

\* A caller calls whenIdle.
CallWhenIdle ==
    /\ whenIdle = "none"
    /\ Step(WhenIdle(Begin(OpOf("whenIdle", 0, <<>>))))

\* The timer of the whenIdle call fires.
IdleTimer ==
    /\ Quiet
    /\ idleTimer
    /\ Step(IdleTimerFired(Begin(OpOf("idleTimer", 0, <<>>))))

\* A caller calls observe.
CallObserve ==
    /\ observations < MaxObservations
    /\ Step(Observe(Begin(OpOf("observe", 0, <<>>))))

\* A caller calls the function observe call o returned.
CallCancel ==
    \E o \in Observations :
        /\ o <= observations
        /\ Step(Cancel(Begin(OpOf("cancel", o, <<>>)), o))

\* The continuation of #request runs.
RequestContinue ==
    \E id \in Ids :
        /\ pc[id] = "awaitInit"
        /\ promise[awaiting[id]] # "pending"
        /\ Step(RequestContinues(Begin(OpOf("continue", 0, <<>>)), id))

\* The continuation of eval runs.
EvalContinue ==
    \E id \in Ids :
        /\ pc[id] = "awaitResponse"
        /\ promise[id] # "pending"
        /\ Step(EvalContinues(Begin(OpOf("continue", 0, <<>>)), id))

\* The timeout timer of request id fires.
TimeoutOf(id) ==
    /\ Quiet
    /\ id \in timeoutId
    /\ Step(TimeoutFired(Begin(OpOf("timeout", id, <<>>)), id))

Timeout == \E id \in Ids : TimeoutOf(id)

\* The refresh timer of evaluation id fires.
RefreshOf(id) ==
    /\ Quiet
    /\ refreshTimer[id]
    /\ Step(RefreshFired(Begin(OpOf("refresh", id, <<>>)), id))

RefreshTimer == \E id \in Ids : RefreshOf(id)

\* The listener of the sandbox receives response m.
Receive(m) ==
    /\ Quiet
    /\ stopListening # 0
    /\ Step(Seen(HandleResponse(Arrived([Begin(OpOf("message", 0, Written(m.vars)))
                                             EXCEPT !.received = m]), m), m))

\* The bridge delivers a response to one of the requests ids.
DeliverResponse(messages, ids) ==
    \E m \in messages : m.inResponseTo \in ids /\ Receive(m)

\* The listener of the sandbox receives call request c.
ReceiveCall(c) ==
    /\ Quiet
    /\ stopListening # 0
    /\ \A r \in running : r.messageId # c.messageId
    /\ Step(HandleFunctionCall(Arrived(Begin(OpOf("call", 0, c.written))), c))

\* The bridge delivers a call request made by one of the evaluations ids.
DeliverCall(ids) ==
    \E c \in CallRequests : c.correlationId \in ids /\ ReceiveCall(c)

\* The evaluations whose request the host's sandbox has received.
Received == {id \in Ids : request[id] = "eval" /\ sandbox # 0 /\ postedTo[id] = sandbox}

\* Call requests that report no written variable.
PlainCalls == {c \in CallRequests : c.written = <<>>}

\* The bridge delivers a call request made by one of the evaluations ids,
\* with no written variable.
DeliverPlainCall(ids) ==
    \E c \in PlainCalls : c.correlationId \in ids /\ ReceiveCall(c)

\* An exposed function returns or throws.
FunctionSettle ==
    \E r \in running, ok \in BOOLEAN :
        Step(FunctionSettles(Begin(OpOf("continue", 0, <<>>)), r, ok))

\* An exposed function calls this.onScriptExit(callback) on the scope of
\* evaluation id.
CallOnScriptExit ==
    \E id \in scopeHeld :
        Step(OnScriptExit(Begin(OpOf("onScriptExit", id, <<>>)), id))

\* An exposed function calls this.onObserverExit(callback) on the scope of
\* evaluation id.
CallOnObserverExit ==
    \E id \in scopeHeld :
        Step(OnObserverExit(Begin(OpOf("onObserverExit", id, <<>>)), id))

\* An exposed function calls this.invalidate() on the scope of evaluation id.
ScopeInvalidateOf(id) ==
    /\ id \in scopeHeld
    /\ Step(ScopeInvalidate(Begin(OpOf("invalidate", id, <<>>)), id))

CallScopeInvalidate == \E id \in Ids : ScopeInvalidateOf(id)

\* The listener of the sandbox receives yield request y.
ReceiveYield(y) ==
    /\ Quiet
    /\ stopListening # 0
    /\ Step(HandleYield(Arrived(Begin(OpOf("yield", 0, y.written))), y))

\* The bridge delivers a yield request of one of the evaluations ids.
DeliverYield(ids) == \E y \in YieldRequests : ids # {} /\ ReceiveYield(y)

\* A request that is ignored.
IgnoreUnsupported(s, b, message) == s

\* #handleMessage(message), the request of a type the host does not know:
\* an error response with the text "Unsupported request: <type>".
HandleUnsupported(s, b, message) ==
    Reply(s, b, "error", message.messageId, <<"Unsupported request: ", message.type>>)

\* #handleMessage(message), for a ping request: a pong response.
HandlePing(s, b, message) == Reply(s, b, "pong", message.messageId, <<>>)

\* #handleMessage(message) for a ping request, a yield request and a
\* request of another type (function calls and responses are handled by
\* HandleFunctionCall and HandleResponse): nothing without a sandbox.
HandleMessage(s, message) ==
    IF s.sandbox = 0 THEN s
    ELSE CASE message.type = "ping" -> HandlePing(Arrived(s), s.sandbox, message)
           [] message.type = "yield" -> HandleYield(Arrived(s), message)
           [] OTHER -> HandleUnsupported(Arrived(s), s.sandbox, message)

\* The listener of the host is called with a ping request, a yield request
\* or a request of an unknown type, also after the sandbox has gone.
ReceiveMessage ==
    \E message \in InboundMessages :
        /\ Quiet
        /\ Step(HandleMessage(Begin(OpOfMessage(message.type, message)), message))

\* #postPingIfNeeded(); elapsed tells whether the last message is older
\* than the ping interval (#shouldPostPing).  The identifier of the ping is
\* not tracked, like the identifier of a reply.
PostPingIfNeeded(s, elapsed) ==
    IF s.sandbox # 0 /\ (~s.lastPing \/ elapsed)
    THEN Post(s, s.sandbox, "ping", 0, 0)
    ELSE s

\* The interval timer of the pings fires.
PingTimer ==
    \E elapsed \in BOOLEAN :
        /\ Quiet
        /\ pingIntervalId
        /\ Step(PostPingIfNeeded(Begin(OpOf("pingTimer", 0, <<>>)), elapsed))

\* A caller calls dispose.
CallDispose == Step(Dispose(Begin(OpOf("dispose", 0, <<>>))))

\* A caller calls reset.
CallReset == Step(Reset(Begin(OpOf("reset", 0, <<>>))))

\* The life cycle of the host: requests, responses, timeouts, reset and
\* dispose, with evaluations that track nothing.
Next ==
    \/ CallInit
    \/ InitContinue
    \/ CallEval({"absent"}, Timeouts)
    \/ RequestContinue
    \/ EvalContinue
    \/ Timeout
    \/ DeliverResponse(PlainResponses, Issued)
    \/ CallDispose
    \/ CallReset

Spec == Init /\ [][Next]_vars

\* Invalidation: evaluations with an invalidation callback, responses with
\* vars and refresh, call and yield requests, on a host without timeouts.
InitTracking ==
    /\ Constructed
    /\ initTimeout = 0
    /\ listener = "absent"
    /\ idLimit = MaxMsgId
    /\ history = {}
    /\ bridge = "deferred"

NextTracking ==
    \/ CallEval({"absent", "returns"}, {0})
    \/ RequestContinue
    \/ EvalContinue
    \/ RefreshTimer
    \/ DeliverResponse(Responses, Outstanding)
    \/ DeliverCall(Outstanding)
    \/ FunctionSettle
    \/ CallScopeInvalidate
    \/ DeliverYield(Evaluating)

SpecTracking == InitTracking /\ [][NextTracking]_vars

\* Racing evaluations: evaluations with an invalidation callback and the
\* responses to them, in any order, with the record of what each could
\* have seen.
RaceResponses ==
    [type : {"ready"}, inResponseTo : Ids, vars : {<<>>}, refresh : {NoRefresh},
     message : {""}]
    \cup [type : {"result"}, inResponseTo : Ids, vars : TrackedVars, refresh : {NoRefresh},
          message : {""}]

InitRace ==
    /\ Constructed
    /\ initTimeout = 0
    /\ listener = "absent"
    /\ idLimit = MaxMsgId
    /\ history = {"seen"}
    /\ bridge = "deferred"

NextRace ==
    \/ CallEval({"returns"}, {0})
    \/ RequestContinue
    \/ EvalContinue
    \/ DeliverResponse(RaceResponses, Outstanding)

SpecRace == InitRace /\ [][NextRace]_vars

\* Exposed functions: the life cycle of the host with the call requests of
\* the scripts the host's sandbox has received, while they run or later.
InitCalls ==
    /\ Constructed
    /\ initTimeout = 0
    /\ listener = "absent"
    /\ idLimit = MaxMsgId
    /\ history = {"posted"}
    /\ bridge = "deferred"

NextCalls ==
    \/ CallInit
    \/ InitContinue
    \/ CallEval({"absent"}, Timeouts)
    \/ RequestContinue
    \/ EvalContinue
    \/ Timeout
    \/ DeliverResponse(PlainResponses, Outstanding)
    \/ DeliverPlainCall(Received)
    \/ FunctionSettle
    \/ CallDispose
    \/ CallReset

SpecCalls == InitCalls /\ [][NextCalls]_vars

\* Waiting for idle: a whenIdle call on a host whose caller may have an
\* idle-change listener that calls eval.
InitIdle ==
    /\ Constructed
    /\ initTimeout = 0
    /\ listener \in {"absent", "evals"}
    /\ idLimit = MaxObserveIds
    /\ history = {}
    /\ bridge = "deferred"

NextIdle ==
    \/ CallWhenIdle
    \/ IdleTimer
    \/ CallEval({"absent"}, {0})
    \/ RequestContinue
    \/ EvalContinue
    \/ DeliverResponse(PlainResponses, Outstanding)
    \/ CallReset

SpecIdle == InitIdle /\ [][NextIdle]_vars

\* Observed scripts: observe calls, their cancellation, evaluations by
\* other callers and the responses, in any order, with the record of what
\* each evaluation could have seen.
ObservedVars ==
    {<<>>} \cup {v \in [{"x"} -> Tracked] : ~IsNumber(v["x"].read) \/ ~IsNumber(v["x"].write)}

ObserveResponses ==
    [type : {"ready", "error"}, inResponseTo : Ids, vars : {<<>>}, refresh : {NoRefresh},
     message : {""}]
    \cup [type : {"result"}, inResponseTo : Ids, vars : ObservedVars, refresh : {NoRefresh},
          message : {""}]

InitObserve ==
    /\ Constructed
    /\ initTimeout = 0
    /\ listener = "absent"
    /\ idLimit = MaxObserveIds
    /\ history = {"seen"}
    /\ bridge = "deferred"

NextObserve ==
    \/ CallObserve
    \/ CallEval({"absent"}, {0})
    \/ RequestContinue
    \/ EvalContinue
    \/ DeliverResponse(ObserveResponses, Outstanding)
    \/ CallCancel

SpecObserve == InitObserve /\ [][NextObserve]_vars

\* Busy periods: the life cycle of the host with the record of every
\* notification of the idle listener since the host was constructed.
InitPeriods ==
    /\ Constructed
    /\ initTimeout \in Timeouts
    /\ listener = "absent"
    /\ idLimit = MaxMsgId
    /\ history = {"notifications", "op"}
    /\ bridge = "deferred"

SpecPeriods == InitPeriods /\ [][Next]_vars

\* Resets: init and eval calls on a host that is reset at any moment, with
\* the messages each step posts.
InitResets ==
    /\ Constructed
    /\ initTimeout = 0
    /\ listener = "absent"
    /\ idLimit = MaxObserveIds
    /\ history = {"posted", "op"}
    /\ bridge = "deferred"

NextResets ==
    \/ CallInit
    \/ InitContinue
    \/ CallEval({"absent"}, {0})
    \/ RequestContinue
    \/ EvalContinue
    \/ DeliverResponse(PlainResponses, Outstanding)
    \/ CallReset

SpecResets == InitResets /\ [][NextResets]_vars

\* Listeners that call back: eval, reset and dispose on a host whose caller
\* may have an idle-change listener that calls eval, with the notifications
\* of each step.
InitListening ==
    /\ Constructed
    /\ initTimeout = 0
    /\ listener \in {"absent", "evals"}
    /\ idLimit = MaxObserveIds
    /\ history = {"notified", "op"}
    /\ bridge = "deferred"

NextListening ==
    \/ CallEval({"absent"}, {0})
    \/ RequestContinue
    \/ EvalContinue
    \/ DeliverResponse(PlainResponses, Outstanding)
    \/ CallDispose
    \/ CallReset

SpecListening == InitListening /\ [][NextListening]_vars

\* Callbacks that throw: evaluations whose invalidation callback throws, on
\* a host whose caller has an idle-change listener that throws, with a
\* whenIdle call (whose listener comes after the caller's).
InitThrowing ==
    /\ Constructed
    /\ initTimeout = 0
    /\ listener = "throws"
    /\ idLimit = MaxObserveIds
    /\ history = {"notified", "op"}
    /\ bridge = "deferred"

NextThrowing ==
    \/ CallWhenIdle
    \/ IdleTimer
    \/ CallEval({"throws"}, {0})
    \/ RequestContinue
    \/ EvalContinue
    \/ DeliverResponse(ObserveResponses, Outstanding)
    \/ DeliverYield(Evaluating)

SpecThrowing == InitThrowing /\ [][NextThrowing]_vars

\* Exit callbacks: an observed script whose evaluations ask for a refresh
\* and call functions, which register exit callbacks.
ExitResponses ==
    [type : {"ready", "result"}, inResponseTo : Ids, vars : {<<>>},
     refresh : {NoRefresh, [kind |-> "number", value |-> 1]}, message : {""}]

InitExit ==
    /\ Constructed
    /\ initTimeout = 0
    /\ listener = "absent"
    /\ idLimit = MaxObserveIds
    /\ history = {"events", "op"}
    /\ bridge = "deferred"

NextExit ==
    \/ CallObserve
    \/ RequestContinue
    \/ EvalContinue
    \/ DeliverResponse(ExitResponses, Outstanding)
    \/ RefreshTimer
    \/ DeliverPlainCall(Evaluating)
    \/ FunctionSettle
    \/ CallOnScriptExit
    \/ CallOnObserverExit
    \/ CallCancel

SpecExit == InitExit /\ [][NextExit]_vars

\* Refresh: evaluations with and without an invalidation callback whose
\* responses carry a refresh of any kind, on a host that may be disposed.
\* The event loop runs every continuation that is ready and every timer
\* that is armed.
AnyRefresh ==
    {NoRefresh, [kind |-> "false", value |-> 0], [kind |-> "string", value |-> 1],
     [kind |-> "number", value |-> 0], [kind |-> "number", value |-> 1]}

RefreshResponses ==
    [type : {"ready"}, inResponseTo : Ids, vars : {<<>>}, refresh : {NoRefresh},
     message : {""}]
    \cup [type : {"result"}, inResponseTo : Ids, vars : {<<>>}, refresh : AnyRefresh,
          message : {""}]

NextRefresh ==
    \/ CallEval({"absent", "returns"}, {0})
    \/ RequestContinue
    \/ EvalContinue
    \/ RefreshTimer
    \/ DeliverResponse(RefreshResponses, Outstanding)
    \/ CallDispose

SpecRefresh ==
    /\ InitTracking
    /\ [][NextRefresh]_vars
    /\ WF_vars(RequestContinue)
    /\ WF_vars(EvalContinue)
    /\ WF_vars(RefreshTimer)

\* Callbacks that call back: evaluations whose invalidation callback calls
\* reset() on the host, with the notifications of the idle listener.
InitResetting ==
    /\ Constructed
    /\ initTimeout = 0
    /\ listener = "absent"
    /\ idLimit = MaxMsgId
    /\ history = {"notified"}
    /\ bridge = "deferred"

NextResetting ==
    \/ CallEval({"absent", "resets"}, {0})
    \/ RequestContinue
    \/ EvalContinue
    \/ DeliverResponse(RaceResponses, Outstanding)

SpecResetting == InitResetting /\ [][NextResetting]_vars

\* ------------------------------------------------------------------ claims

\* Request id awaits a response: it has a pending entry and its promise
\* is not settled.
Awaiting(id) == id \in responseHandlers /\ promise[id] = "pending"

\* C1: in every reachable state isIdle is true if and only if no request
\* of the host awaits a response, where a request whose promise was
\* rejected no longer counts.
C1_IdleIffNoneAwaiting == isIdle <=> ~(\E id \in Ids : Awaiting(id))

\* C2: the idle listener is called exactly once in every step that changes
\* isIdle, with the new value, and not at all in a step that leaves isIdle
\* unchanged; a notification never repeats the value of the one before it.
C2_NotifiedOncePerChange ==
    [][/\ notified' = IF isIdle' # isIdle THEN <<isIdle'>> ELSE <<>>
       /\ notified' # <<>> /\ lastNotified # <<>> => notified'[1] # lastNotified[1]]_vars

\* C3: a request whose timeout fired before a response arrived is rejected
\* with the timeout failure and has no pending entry any more, so that it
\* neither keeps the host busy nor makes a later dispose() notify.
C3_TimeoutRemovesEntry ==
    \A id \in Ids : promise[id] = "timeout" => id \notin responseHandlers

\* C4: when dispose() returns, no request that was pending at the call is
\* left with an unsettled promise.
C4_DisposeSettlesPending ==
    [][op'.name = "dispose" => \A id \in responseHandlers : promise'[id] # "pending"]_vars

\* C5: a dispose() or reset() that does not throw notifies the idle
\* listener exactly once, with true, when a request awaited a response at
\* the call, and not at all when none did.
C5_DisposeNotifiesIffPending ==
    [][op'.name \in {"dispose", "reset"} /\ op'.result # "disposed"
       => notified' = IF \E id \in Ids : Awaiting(id) THEN <<TRUE>> ELSE <<>>]_vars

\* C6: on a disposed host init(), eval() and reset() fail with the
\* disposed condition, no step creates a sandbox or posts an init or eval
\* request, a call posts nothing at all, and the host stays disposed.
C6_DisposedIsFinal ==
    [][isDisposed =>
         /\ isDisposed'
         /\ sandbox' = 0
         /\ sandboxCount' = sandboxCount
         /\ \A i \in 1..Len(posted') : posted'[i].type \notin {"init", "eval"}
         /\ op'.name \in {"init", "eval", "reset"} => op'.result = "disposed" /\ posted' = <<>>]_vars

\* An eval() made on a disposed host has failed with the disposed condition.
C6_Witness ==
    /\ isDisposed
    /\ op.name = "eval"
    /\ op.result = "disposed"
    /\ \E id \in Ids : outcome[id] = "disposed"

\* C7: the invalidation callback of an eval call is invoked at most once.
C7_InvalidatedAtMostOnce == \A id \in Ids : called[id] <= 1

\* The callback of an evaluation was invoked, the evaluation has returned
\* and a function still holds its scope, on which it may call invalidate().
C7_Witness ==
    \E id \in scopeHeld : called[id] = 1 /\ invalidated[id] /\ pc[id] = "done"

\* The observer of evaluation id is in the registry.
Registered(id) == \E i \in 1..Len(writeObservers) : writeObservers[i] = id

\* The written set reports, for a dependency of evaluation id, a version
\* above the one the evaluation read.
Hits(written, id) ==
    \E k \in DOMAIN dependencies[id] :
        k \in DOMAIN written /\ written[k] > dependencies[id][k]

\* The step processes a response whose written set hits evaluation id.
ResponseHits(id) ==
    \E to \in Outstanding : \E m \in ResponsesTo(to) :
        Hits(Written(m.vars), id) /\ Receive(m)

\* The step processes a call or yield request whose written set hits
\* evaluation id.
RequestHits(id) ==
    \/ \E c \in CallRequests : Hits(c.written, id) /\ ReceiveCall(c)
    \/ \E y \in YieldRequests : Hits(y.written, id) /\ ReceiveYield(y)

\* C8, as stated: the callback of an evaluation is invoked only when the
\* response of another evaluation reports, for one of its dependencies, a
\* version above the one it read.
C8_InvokedOnlyByLaterWrite ==
    [][\A id \in Ids : called'[id] > called[id] => Registered(id) /\ ResponseHits(id)]_vars

\* C8, amended: the callback of an evaluation is invoked only in a step
\* that processes a written set (of a response, a call request or a yield
\* request) hitting its registered observer, in the expiry of its refresh
\* timer, or in a call of invalidate() on its scope after it returned.
C8_InvokedOnlyByCause ==
    [][\A id \in Ids : called'[id] > called[id] =>
          \/ Registered(id) /\ (ResponseHits(id) \/ RequestHits(id))
          \/ RefreshOf(id)
          \/ pc[id] = "done" /\ ScopeInvalidateOf(id)]_vars

\* The callback of an evaluation that depends on no variable was invoked.
C8_Witness ==
    \E id \in Ids : called[id] = 1 /\ dependencies[id] = <<>> /\ pc[id] = "done"

\* C9: a step that processes a response invokes the callback of every
\* registered observer the written set of the response hits and removes it
\* from the registry, and leaves every other registered observer
\* registered, with its dependencies, its callback not invoked.  (A
\* resolved promise holds the response that resolved it, which tells the
\* response of the step without trying every one.)
C9_ResponseFiresExactlyTheHit ==
    [][\A to \in responseHandlers \ responseHandlers' : \A m \in ResponsesTo(to) :
          (promise'[to] = "resolved" => response'[to] = m) /\ Receive(m) =>
             \A id \in Ids : Registered(id) =>
                IF m.type \in {"result", "error"} /\ Hits(Written(m.vars), id)
                THEN called'[id] = called[id] + 1 /\ ~Registered(id)'
                ELSE /\ called'[id] = called[id]
                     /\ Registered(id)'
                     /\ dependencies'[id] = dependencies[id]]_vars

\* A response that is still held by its evaluation hit the observer of
\* another evaluation, whose callback was invoked, and no function ever
\* held a scope.
C9_Witness ==
    \E id, by \in Ids :
        /\ called[id] = 1
        /\ ~observer[id]
        /\ scopeHeld = {}
        /\ pc[by] = "awaitResponse"
        /\ promise[by] = "resolved"
        /\ Hits(Written(response[by].vars), id)

\* No request is in flight and no continuation is ready: the host takes no
\* further step unless a caller makes a new call.
Quiescent ==
    /\ responseHandlers = {}
    /\ Quiet
    /\ \A id \in Ids : pc[id] \in {"none", "done"}

\* Evaluation id read variable k at a version below one that a response
\* processed since its request was posted wrote.
Outdated(id, k) ==
    /\ onInvalidated[id] # "absent"
    /\ pc[id] = "done"
    /\ k \in DOMAIN dependencies[id]
    /\ seen[id][k] > dependencies[id][k]

\* C10: invalidation is never missed when evaluations race: once the host
\* is quiescent, every evaluation with a callback that read a variable at a
\* version below one written by a response processed since its request was
\* posted (before or after its own response) has had its callback invoked.
C10_NeverMissed ==
    \A id \in Ids, k \in Vars : Quiescent /\ Outdated(id, k) => called[id] >= 1

\* The variables of a response that were read and not written at the
\* version read or a later one.
ReadNotDominated(tracked) ==
    {k \in DOMAIN tracked :
        /\ tracked[k].read # Undefined
        /\ (tracked[k].write = Undefined \/ tracked[k].write < tracked[k].read)}

\* C11: when an evaluation continues with its response, its observer is
\* registered iff it has an invalidation callback and some variable of the
\* response was read and not written at the version read or later; the
\* registered dependencies are exactly those variables, each with the
\* version read.
C11_DependenciesAreReadNotDominated ==
    [][\A id \in Ids :
          pc[id] = "awaitResponse" /\ pc'[id] = "done" /\ promise[id] = "resolved" =>
             LET D == ReadNotDominated(response[id].vars)
             IN  /\ Registered(id)' <=> onInvalidated[id] # "absent" /\ D # {}
                 /\ Registered(id)' =>
                       /\ DOMAIN dependencies'[id] = D
                       /\ \A k \in D : dependencies'[id][k] = response[id].vars[k].read]_vars

\* An evaluation whose response came with vars has returned and its
\* observer is registered with the versions it read.
C11_Witness ==
    \E id \in Ids :
        /\ pc[id] = "done"
        /\ outcome[id] \in {"value", "remote"}
        /\ Registered(id)
        /\ dependencies[id] # <<>>

\* The evaluations observe call o has started.
EvaluationsOf(o) == {id \in Ids : observation[id] = o /\ pc[id] # "none"}

\* C12: for an active observation, every evaluation of it that read a
\* variable at a version below one written by a response processed since
\* its request was posted has caused exactly one re-evaluation, once the
\* host is quiescent; and onNext and onError receive the results in the
\* order of the evaluations.
C12_ObserverFollowsWrites ==
    \A o \in Observations :
        o <= observations /\ obsActive[o] /\ Quiescent =>
            /\ \A id \in EvaluationsOf(o), k \in Vars :
                   Outdated(id, k) =>
                      /\ called[id] = 1
                      /\ \E next \in EvaluationsOf(o) : next > id
            /\ \A i, j \in DOMAIN delivered[o] :
                   i < j => delivered[o][i].id < delivered[o][j].id

\* C13: once the function observe returned has been called, no step
\* invokes onNext or onError of that observation and no step starts an
\* evaluation for it.
C13_CancelledIsSilent ==
    [][\A o \in Observations :
          o <= observations /\ ~obsActive[o] =>
             /\ delivered'[o] = delivered[o]
             /\ EvaluationsOf(o)' = EvaluationsOf(o)]_vars

\* An evaluation of a cancelled observation returned a value that was not
\* delivered, and a later write then conflicted with what it read.
C13_Witness ==
    \E o \in Observations, id \in Ids :
        /\ o <= observations /\ ~obsActive[o]
        /\ id \in EvaluationsOf(o)
        /\ pc[id] = "done" /\ outcome[id] = "value"
        /\ \A i \in DOMAIN delivered[o] : delivered[o][i].id # id
        /\ called[id] = 1

\* C14: a step posts an eval request only to the host's sandbox, and only
\* when the init request posted to that sandbox has been answered by a
\* ready response.
C14_EvalPostedAfterReady ==
    \A i \in DOMAIN posted :
        posted[i].type = "eval" =>
            /\ posted[i].to = sandbox
            /\ initPromise # 0
            /\ promise[initPromise] = "resolved"

\* C15: a step posts an init request only to a sandbox it has created, and
\* one at most; a step that keeps the sandbox keeps its init promise, and
\* every call of init, eval or observe awaits the init promise of the
\* sandbox the host has at the call.
C15_OneInitPerSandbox ==
    [][/\ \A i \in DOMAIN posted' :
             posted'[i].type = "init" =>
                /\ sandbox = 0
                /\ sandboxCount' = sandboxCount + 1
                /\ posted'[i].to = sandboxCount'
                /\ \A j \in DOMAIN posted' : j # i => posted'[j].type # "init"
       /\ sandbox # 0 /\ sandbox' = sandbox => initPromise' = initPromise
       /\ \A id \in Ids : pc[id] = "none" /\ pc'[id] = "awaitInit" =>
                               awaiting'[id] = initPromise'
       /\ \A p \in Ids : initCalls'[p] > initCalls[p] => p = initPromise']_vars

\* Two eval calls and an init call wait for the answer to one init request.
C15_Witness ==
    \E p \in Ids :
        /\ promise[p] = "pending" /\ request[p] = "init"
        /\ initCalls[p] >= 1
        /\ Cardinality({id \in Ids : pc[id] = "awaitInit" /\ awaiting[id] = p}) >= 2

\* The evaluation id is live: its request has been issued and has not
\* completed, timed out or been dropped by reset() or dispose().
Live(id) == request[id] = "eval" /\ id \in responseHandlers /\ promise[id] = "pending"

\* C16: a call request whose correlationId does not name a live evaluation
\* when it is processed is answered with an error and invokes no function.
C16_InvokedOnlyForLiveEvaluation ==
    [][\A c \in PlainCalls :
          (running' # running \/ posted' # <<>>) /\ ~Live(c.correlationId) /\ ReceiveCall(c) =>
             /\ running' = running
             /\ Len(posted') = 1
             /\ posted'[1].type = "error"
             /\ posted'[1].inResponseTo = c.messageId]_vars

\* C17: a call request whose key is not an exposed function is answered, in
\* the step that processes it, with one error response to the host's
\* sandbox whose inResponseTo is the call's messageId and whose message
\* contains the key; no function is invoked.
C17_UndefinedFunctionIsRefused ==
    [][\A c \in PlainCalls :
          c.key \notin Funcs /\ ReceiveCall(c) =>
             /\ running' = running
             /\ scopeHeld' = scopeHeld
             /\ Len(posted') = 1
             /\ posted'[1].type = "error"
             /\ posted'[1].to = sandbox
             /\ posted'[1].inResponseTo = c.messageId
             /\ \E i \in DOMAIN posted'[1].message : posted'[1].message[i] = c.key]_vars

\* A response message to a call request.
IsCallReply(p) == p.type \in {"return", "error"} /\ p.inResponseTo \in SandboxMsgIds

\* C18: a step that processes a call request either posts one return or
\* error response with the call's messageId and starts no function, or
\* starts the function and posts nothing; a step in which a function
\* settles posts one return or error response with the messageId of its
\* call to the sandbox the call came from, also after reset() or
\* dispose(); and no other step posts a response to a call.
C18_OneReplyPerCall ==
    [][/\ \A c \in PlainCalls :
             ReceiveCall(c) =>
                \/ /\ running' = running
                   /\ Len(posted') = 1
                   /\ IsCallReply(posted'[1])
                   /\ posted'[1].inResponseTo = c.messageId
                   /\ posted'[1].to = sandbox
                \/ /\ running' = running \cup {[to |-> sandbox, messageId |-> c.messageId]}
                   /\ running' # running
                   /\ posted' = <<>>
       /\ \A r \in running \ running' :
             /\ Len(posted') = 1
             /\ IsCallReply(posted'[1])
             /\ posted'[1].inResponseTo = r.messageId
             /\ posted'[1].to = r.to
       /\ \A i \in DOMAIN posted' :
             IsCallReply(posted'[i]) =>
                \/ \E r \in running \ running' : r.messageId = posted'[i].inResponseTo
                \/ \E c \in PlainCalls : c.messageId = posted'[i].inResponseTo /\ ReceiveCall(c)]_vars

\* A function that was running when the host was reset or disposed has
\* returned: its response went to the sandbox the call came from.
C18_Witness ==
    /\ Len(posted) = 1
    /\ posted[1].type = "return"
    /\ posted[1].to # sandbox

\* C19: a call of the scope's invalidate() while the request of its
\* evaluation is outstanding changes nothing (so nothing is left that could
\* invoke the callback later); a call after the evaluation has returned
\* invokes the invalidation callback iff it was not invoked before, and
\* marks the evaluation invalidated.
C19_ScopeInvalidateAfterReturn ==
    [][\A id \in Ids :
          ScopeInvalidateOf(id) =>
             /\ pc[id] \in {"awaitInit", "awaitResponse"} /\ promise[id] = "pending" =>
                    UNCHANGED <<called, invalidated, writeObservers, observer, refreshTimer,
                                dependencies, active, activeScopes, responseHandlers>>
             /\ pc[id] = "done" /\ onInvalidated[id] # "absent" =>
                    /\ invalidated'[id]
                    /\ called'[id] = IF invalidated[id] THEN called[id] ELSE called[id] + 1
                    /\ called'[id] = 1
                    /\ \A other \in Ids \ {id} : called'[other] = called[other]]_vars

\* The callback of an evaluation that failed without a response to track
\* was invoked: only the scope's invalidate() can have done it.
C19_Witness ==
    \E id \in Ids : pc[id] = "done" /\ outcome[id] = "unexpected" /\ called[id] = 1

\* C20: the promise of a whenIdle call is resolved only in a state in which
\* the host is idle and has been idle at every moment since the timer was
\* armed; and the timer is armed only while the host is idle (a transition
\* to busy cancels it).
C20_ResolvesAfterContinuousIdle ==
    [][/\ whenIdle = "waiting" /\ whenIdle' = "resolved" => isIdle /\ ~busy
       /\ idleTimer' => isIdle']_vars

\* The host's first request was that of an init() call, it was answered,
\* every init() call has returned, and no request was issued since.
InitCompleted ==
    /\ messageIdCounter = 1
    /\ request[1] = "init"
    /\ promise[1] = "resolved"
    /\ initCalls[1] = 0

\* The host's first request was that of an eval() call, which made the
\* init request and has returned a value, and no request was issued since.
EvalCompleted ==
    /\ messageIdCounter = 2
    /\ request[1] = "eval"
    /\ request[2] = "init"
    /\ outcome[1] = "value"

\* C21: once the first init() or the first eval() of a host has completed,
\* and as long as no further request is issued, the idle listener has been
\* notified exactly twice over the host's life, with false and then true,
\* also after a following dispose() or reset(); the host is idle, and it
\* is initialized as long as it keeps its sandbox.
C21_OneBusyPeriod ==
    InitCompleted \/ EvalCompleted =>
        /\ notifications = <<FALSE, TRUE>>
        /\ isIdle
        /\ sandbox # 0 => isInitialized

\* The first eval() of a host, with its lazy initialization, has completed
\* and the host was then disposed.
C21_Witness == EvalCompleted /\ isDisposed /\ op.name = "dispose"

\* The sandbox the host had, or created, when eval call id was made: the
\* one its init request was posted to.
SandboxOf(id) == postedTo[awaiting[id]]

\* C22: a reset() leaves no pending request, no write observer and no
\* sandbox; a call of init or eval on a host without a sandbox creates one
\* through the factory and posts an init request to it; and the eval
\* request of a call made after a reset() disposed a sandbox is never
\* posted to a sandbox older than the one of the call, and is posted only
\* when the init request of the sandbox it is posted to was answered.
C22_ResetStartsAfresh ==
    [][/\ op'.name = "reset" =>
             /\ responseHandlers' = {}
             /\ writeObservers' = <<>>
             /\ sandbox' = 0
             /\ stopListening' = 0
       /\ sandbox = 0 /\ op'.name \in {"init", "eval"} =>
             /\ sandboxCount' = sandboxCount + 1
             /\ sandbox' = sandboxCount'
             /\ \E i \in DOMAIN posted' : posted'[i].type = "init" /\ posted'[i].to = sandbox'
       /\ \A i \in DOMAIN posted' :
             posted'[i].type = "eval" /\ SandboxOf(posted'[i].messageId) > 1 =>
                /\ posted'[i].to >= SandboxOf(posted'[i].messageId)
                /\ \E p \in Ids : /\ request[p] = "init"
                                  /\ postedTo[p] = posted'[i].to
                                  /\ promise[p] = "resolved"]_vars

\* The fields of the host.
fields ==
    <<factory, sandbox, stopListening, initPromise, isInitialized, messageIdCounter,
      writeObservers, responseHandlers, activeScopes>>

\* C23: a dispose() that follows a dispose(), and a reset() that follows a
\* reset() of a live host, changes no field of the host and does not
\* notify the idle listener; and dispose() has been called once on every
\* sandbox the host has created and dropped, and on no sandbox twice.
C23_TwiceIsOnce ==
    [][/\ op.name = "dispose" /\ op'.name = "dispose" =>
             UNCHANGED fields /\ notified' = <<>>
       /\ op.name = "reset" /\ op.result # "disposed" /\ op'.name = "reset" =>
             UNCHANGED fields /\ notified' = <<>>
       /\ \A b \in Sandboxes :
             disposals'[b] = IF b <= sandboxCount' /\ b # sandbox' THEN 1 ELSE 0]_vars

\* C24: exceptions of the caller's callbacks abort nothing.  In a step
\* that notifies the idle listeners, where the caller's listener throws,
\* the listener of a waiting whenIdle call is still called (its timer is
\* armed iff the last value is true); a step that processes a written set
\* invokes the callback of every registered observer it hits and removes
\* that observer and its refresh timer, although every callback throws; and
\* a step that processes a response removes the pending entry of its
\* request, and notifies the listeners with true if it was the last.
C24_ExceptionsAbortNothing ==
    [][/\ notified' # <<>> /\ whenIdle = "waiting" /\ whenIdle' = "waiting" =>
             idleTimer' = notified'[Len(notified')]
       /\ op'.name \in {"message", "yield"} =>
             \A id \in Ids :
                Registered(id) /\ Hits(op'.written, id) =>
                   /\ called'[id] = called[id] + 1
                   /\ ~Registered(id)'
                   /\ ~refreshTimer'[id]
       /\ op'.name = "message" =>
             /\ Cardinality(responseHandlers') = Cardinality(responseHandlers) - 1
             /\ responseHandlers' = {} => notified' = <<TRUE>>]_vars

\* The last pending response wrote a variable two registered observers
\* depend on: both callbacks were invoked and threw, the caller's idle
\* listener was notified and threw, and the timer of the waiting whenIdle
\* call is armed.
C24_Witness ==
    /\ op.name = "message"
    /\ notified = <<TRUE>>
    /\ whenIdle = "waiting"
    /\ idleTimer
    /\ Cardinality({id \in Ids : called[id] = 1 /\ Hits(op.written, id)}) >= 2

\* The step invoked the n callbacks that waited in a queue (if any).
Invoked(kind, of, n) ==
    n > 0 => \E i \in DOMAIN events' :
                events'[i] = [kind |-> kind, of |-> of, callbacks |-> n]

\* C25: a step that invalidates an evaluation of an observation invokes
\* all script-exit callbacks of the evaluation and all observer-exit
\* callbacks of the observation that are waiting, leaves both queues empty,
\* and starts the re-evaluation only after them; a step that cancels an
\* observation invokes all its observer-exit callbacks.
C25_ExitsBeforeReevaluation ==
    [][/\ \A id \in Ids :
             observation[id] # 0 /\ called'[id] > called[id] =>
                /\ scriptExit'[id] = 0
                /\ observerExit'[observation[id]] = 0
                /\ Invoked("onScriptExit", id, scriptExit[id])
                /\ Invoked("onObserverExit", observation[id], observerExit[observation[id]])
                /\ \A i, j \in DOMAIN events' :
                      events'[i].kind = "eval" /\ events'[j].kind # "eval" => j < i
       /\ op'.name = "cancel" =>
             /\ observerExit'[op'.id] = 0
             /\ Invoked("onObserverExit", op'.id, observerExit[op'.id])]_vars

\* The invalidation of an observed evaluation invoked the observer-exit
\* callbacks that a function had registered and then started the next
\* evaluation.
C25_Witness ==
    /\ Len(events) = 2
    /\ events[1].kind = "onObserverExit"
    /\ events[2].kind = "eval"
    /\ \E id \in Ids : called[id] = 1 /\ observation[id] = events[2].of

\* C26: when an evaluation continues with its response, its refresh timer
\* is armed iff it has an invalidation callback and the refresh of the
\* response is a number above zero, and no other step arms it; the
\* evaluation was not invalidated before; and once the timer is armed the
\* callback is eventually invoked, whether or not a write is reported.
C26_RefreshInvalidates ==
    /\ [][\A id \in Ids :
             /\ pc[id] = "awaitResponse" /\ pc'[id] = "done" /\ promise[id] = "resolved" =>
                   /\ refreshTimer'[id] <=>
                         /\ onInvalidated[id] # "absent"
                         /\ response[id].refresh.kind = "number"
                         /\ response[id].refresh.value > 0
                   /\ called'[id] = 0
             /\ refreshTimer'[id] /\ ~refreshTimer[id] =>
                   pc[id] = "awaitResponse" /\ pc'[id] = "done"]_vars
    /\ \A id \in 1..MaxMsgId : refreshTimer[id] ~> called[id] = 1

\* The callback of an evaluation that depends on no variable was invoked
\* on a disposed host: only the refresh timer can have done it.
C26_Witness ==
    \E id \in Ids : called[id] = 1 /\ dependencies[id] = <<>> /\ isDisposed

\* C27: an evaluation that has been invalidated, by a conflicting write,
\* by its refresh timer or by invalidate() on its scope, has no observer in
\* the registry and no refresh timer armed; and no observer whose callback
\* was invoked is in the registry.
C27_InvalidatedIsUnobserved ==
    \A id \in Ids :
        invalidated[id] \/ called[id] >= 1 =>
            /\ ~Registered(id)
            /\ ~observer[id]
            /\ ~refreshTimer[id]

\* An evaluation whose observer was registered has been invalidated while
\* a function still holds its scope.
C27_Witness ==
    \E id \in scopeHeld :
        /\ invalidated[id]
        /\ dependencies[id] # <<>>
        /\ ~Registered(id)
        /\ ~refreshTimer[id]

\* Responses: init and eval calls whose requests are answered by responses of
\* every type, error responses with a message text, any number of times, with
\* the response each step processed and the message of each failure.
TextResponses ==
    [type : {"ready", "result", "other"}, inResponseTo : Ids, vars : {<<>>},
     refresh : {NoRefresh}, message : {""}]
    \cup [type : {"error"}, inResponseTo : Ids, vars : {<<>>}, refresh : {NoRefresh},
          message : Texts]

InitResponses ==
    /\ Constructed
    /\ initTimeout \in Timeouts
    /\ listener = "absent"
    /\ idLimit = MaxMsgId
    /\ history = {"failure", "received"}
    /\ bridge = "deferred"

NextResponses ==
    \/ CallInit
    \/ InitContinue
    \/ CallEval({"absent"}, Timeouts)
    \/ RequestContinue
    \/ EvalContinue
    \/ Timeout
    \/ DeliverResponse(TextResponses, Issued)

SpecResponses == InitResponses /\ [][NextResponses]_vars

\* The response matches the type the request expects.
Matches(requestType, m) ==
    \/ requestType = "init" /\ m.type = "ready"
    \/ requestType = "eval" /\ m.type \in {"result", "error"}

\* C28: a response delivered for a pending request settles it and removes its
\* pending entry: the request resolves with the response when the response is
\* of the expected type (and eval then fails with the message text of an error
\* response, verbatim), rejects with the message text of an error response
\* otherwise, and rejects with a failure naming the type of the response and
\* the type of the request for any other response; a settled request never
\* changes again, and a response to a request without pending entry changes no
\* pending state.
C28_ResponseSettlesOnce ==
    [][/\ received' # NoResponse =>
            LET m == received'
                id == m.inResponseTo
            IN  /\ Awaiting(id) =>
                      /\ id \notin responseHandlers'
                      /\ id \notin timeoutId'
                      /\ Matches(request[id], m) =>
                            promise'[id] = "resolved" /\ response'[id] = m
                      /\ ~Matches(request[id], m) /\ m.type = "error" =>
                            promise'[id] = "remote" /\ failure'[id] = <<m.message>>
                      /\ ~Matches(request[id], m) /\ m.type # "error" =>
                            /\ promise'[id] = "unexpected"
                            /\ failure'[id] = <<"Received unexpected response '", m.type,
                                                "' to request '", request[id], "'">>
                /\ id \notin responseHandlers =>
                      /\ UNCHANGED <<responseHandlers, timeoutId, promise, failure>>
                      /\ \A i \in Ids : pc[i] = "awaitResponse" => response'[i] = response[i]
       /\ \A id \in Ids :
            /\ promise[id] \notin {"none", "pending"} => promise'[id] = promise[id]
            /\ pc[id] = "awaitResponse" /\ pc'[id] = "done" /\ promise[id] = "resolved"
                 /\ response[id].type = "error" =>
                    outcome'[id] = "remote" /\ failure'[id] = <<response[id].message>>]_vars

\* One eval request was rejected for a ready response, and another eval
\* failed with the text of its error response.
C28_Witness ==
    /\ \E id \in Ids : /\ request[id] = "eval" /\ promise[id] = "unexpected"
                        /\ failure[id] = Unexpected("ready", "eval")
                        /\ id \notin responseHandlers
    /\ \E id \in Ids : /\ request[id] = "eval" /\ promise[id] = "resolved"
                        /\ outcome[id] = "remote" /\ failure[id] = <<"boom">>

\* C29: between the runs of the host, an active scope exists only for an
\* evaluation whose request still has a pending entry, also after a timeout
\* and after reset() or dispose() dropped the pending entries.
C29_ScopeOnlyWhilePending ==
    Quiet => activeScopes \subseteq responseHandlers

\* Bridges: init and eval calls on a host that is reset or disposed at any
\* moment, whose sandbox answers later or inside post(), with the messages
\* each step posts.
InitBridges ==
    /\ Constructed
    /\ initTimeout \in Timeouts
    /\ listener = "absent"
    /\ idLimit = MaxMsgId
    /\ history = {"posted", "op"}
    /\ bridge \in {"deferred", "synchronous"}

NextBridges ==
    \/ CallInit
    \/ InitContinue
    \/ CallEval({"absent"}, Timeouts)
    \/ RequestContinue
    \/ EvalContinue
    \/ Timeout
    \/ DeliverResponse(PlainResponses, Outstanding)
    \/ CallReset
    \/ CallDispose

SpecBridges == InitBridges /\ [][NextBridges]_vars

\* C30: when a step posts an init or eval request, the pending entry of the
\* request is registered at the post: a bridge that answers later finds the
\* entry in place after the step, and a bridge that answers inside post() has
\* found it, so that the entry is gone and the request, unless it had timed
\* out before, is resolved.
C30_RegisteredBeforePosted ==
    [][\A i \in DOMAIN posted' :
          posted'[i].type \in {"init", "eval"} =>
              LET id == posted'[i].messageId
              IN  IF bridge = "synchronous"
                  THEN /\ id \notin responseHandlers'
                       /\ promise[id] \in {"none", "pending"} => promise'[id] = "resolved"
                  ELSE id \in responseHandlers']_vars

\* C31: an evaluation that fails before its request is posted (the host is
\* disposed, or the initialization it awaited failed) leaves no pending entry
\* and no active scope behind; one that fails in the step of the call leaves
\* isIdle as it was and notifies no listener.
C31_FailedBeforeSendLeavesNothing ==
    [][\A id \in Ids :
          pc[id] \in {"none", "awaitInit"} /\ pc'[id] = "done" =>
              /\ id \notin responseHandlers'
              /\ id \notin activeScopes'
              /\ pc[id] = "none" => isIdle' = isIdle /\ notified' = <<>>]_vars

\* C32: isInitialized is true only while the host has a sandbox whose init
\* request was answered with a ready response; it is false after reset()
\* until a new initialization completes, and false after dispose().
C32_InitializedMeansReady ==
    isInitialized =>
        /\ sandbox # 0
        /\ initPromise # 0
        /\ promise[initPromise] = "resolved"

\* C33: once dispose() has returned, no step invokes an onInvalidated
\* callback any more, neither for a write nor for a refresh timer that was
\* armed before the disposal.
C33_DisposedInvalidatesNothing ==
    [][isDisposed => called' = called]_vars

\* Chains: an observed script whose evaluations are invalidated by refresh
\* timers and by the exposed functions they call, and whose observation may
\* be cancelled.
InitChain ==
    /\ Constructed
    /\ initTimeout = 0
    /\ listener = "absent"
    /\ idLimit = MaxObserveIds
    /\ history = {}
    /\ bridge = "deferred"

NextChain ==
    \/ CallObserve
    \/ RequestContinue
    \/ EvalContinue
    \/ DeliverResponse(ExitResponses, Outstanding)
    \/ RefreshTimer
    \/ DeliverPlainCall(Evaluating)
    \/ FunctionSettle
    \/ CallScopeInvalidate
    \/ CallCancel

SpecChain == InitChain /\ [][NextChain]_vars

\* C34: of the evaluations of one observation at most one has not returned,
\* each has invoked its invalidation callback at most once, and every
\* evaluation but the first was started by the callback of another: the
\* evaluations of an observation form a single chain.
C34_SingleChain ==
    \A o \in Observations :
        /\ Cardinality({id \in EvaluationsOf(o) : pc[id] # "done"}) <= 1
        /\ \A id \in EvaluationsOf(o) : called[id] <= 1
        /\ Cardinality(EvaluationsOf(o))
              <= 1 + Cardinality({id \in EvaluationsOf(o) : called[id] = 1})

\* An observation has started its third evaluation: two have returned and
\* been invalidated, the third awaits its response.
C34_Witness ==
    \E o \in Observations :
        /\ Cardinality({id \in EvaluationsOf(o) : pc[id] = "done" /\ called[id] = 1}) = 2
        /\ \E id \in EvaluationsOf(o) : pc[id] = "awaitResponse"

\* Writes: an observed script, evaluations by other callers whose responses
\* report writes, and a whenIdle call, with the notifications of each step.
InitWrites ==
    /\ Constructed
    /\ initTimeout = 0
    /\ listener = "absent"
    /\ idLimit = MaxObserveIds
    /\ history = {"notified"}
    /\ bridge = "deferred"

NextWrites ==
    \/ CallObserve
    \/ CallEval({"absent"}, {0})
    \/ RequestContinue
    \/ EvalContinue
    \/ DeliverResponse(ObserveResponses, Outstanding)
    \/ CallWhenIdle
    \/ IdleTimer
    \/ CallCancel

SpecWrites == InitWrites /\ [][NextWrites]_vars

\* The evaluations of observed scripts that have a pending entry.
ObservedPending(handlers) == {id \in handlers : observation[id] # 0}

\* C35: a step in which a write invalidates an evaluation of an active
\* observation starts the re-evaluation and leaves its request pending, the
\* host busy and the idle listener without a notification of true; no step
\* notifies true while an observed evaluation has a pending entry, and a
\* whenIdle call resolves only when none has.
C35_BusyUntilReevaluated ==
    [][/\ \A id \in Ids :
            /\ called'[id] > called[id]
            /\ observation[id] # 0
            /\ obsActive[observation[id]]
            => /\ \E next \in Ids :
                    /\ next > messageIdCounter /\ next <= messageIdCounter'
                    /\ observation'[next] = observation[id]
                    /\ next \in responseHandlers'
               /\ ~isIdle'
               /\ \A i \in DOMAIN notified' : ~notified'[i]
       /\ (\E i \in DOMAIN notified' : notified'[i]) => ObservedPending(responseHandlers') = {}
       /\ whenIdle = "waiting" /\ whenIdle' = "resolved"
            => ObservedPending(responseHandlers) = {}]_vars

\* A whenIdle call waits, its timer not set, for the re-evaluation alone: the
\* entry of the evaluation whose write invalidated the observation is gone.
C35_Witness ==
    /\ whenIdle = "waiting"
    /\ ~idleTimer
    /\ \E id, next \in Ids :
          /\ observation[id] # 0 /\ called[id] = 1
          /\ next > id /\ observation[next] = observation[id]
          /\ responseHandlers = {next}

\* Failing scripts: an observed script and evaluations by other callers whose
\* responses, results and errors alike, may carry vars, with the response
\* each step processed.
FailingResponses ==
    [type : {"ready"}, inResponseTo : Ids, vars : {<<>>}, refresh : {NoRefresh},
     message : {""}]
    \cup [type : {"result", "error"}, inResponseTo : Ids, vars : ObservedVars,
          refresh : {NoRefresh}, message : {""}]

InitFailing ==
    /\ Constructed
    /\ initTimeout = 0
    /\ listener = "absent"
    /\ idLimit = MaxObserveIds
    /\ history = {"received"}
    /\ bridge = "deferred"

NextFailing ==
    \/ CallObserve
    \/ CallEval({"absent"}, {0})
    \/ RequestContinue
    \/ EvalContinue
    \/ DeliverResponse(FailingResponses, Outstanding)
    \/ CallCancel

SpecFailing == InitFailing /\ [][NextFailing]_vars

\* Pings: an observed script, with the ping, yield and unknown requests of
\* the sandbox and the ping timer of the host, on a host that is reset and
\* disposed.
InitPings ==
    /\ Constructed
    /\ initTimeout = 0
    /\ listener = "absent"
    /\ idLimit = MaxPingIds
    /\ history = {"op", "posted"}
    /\ bridge = "deferred"

NextPings ==
    \/ CallObserve
    \/ CallEval({"absent"}, {0})
    \/ RequestContinue
    \/ EvalContinue
    \/ DeliverResponse(ObserveResponses, Outstanding)
    \/ ReceiveMessage
    \/ PingTimer
    \/ CallReset
    \/ CallDispose

SpecPings == InitPings /\ [][NextPings]_vars

\* Failed initialization: the life cycle of the host with observed
\* scripts, and the record of the init request that failed.
InitRetry ==
    /\ Constructed
    /\ initTimeout \in Timeouts
    /\ listener = "absent"
    /\ idLimit = MaxMsgId
    /\ history = {"posted", "op", "initFailure"}
    /\ bridge = "deferred"

NextRetry ==
    \/ CallInit
    \/ InitContinue
    \/ CallEval({"absent"}, Timeouts)
    \/ CallObserve
    \/ RequestContinue
    \/ EvalContinue
    \/ Timeout
    \/ DeliverResponse(PlainResponses, Issued)
    \/ CallDispose
    \/ CallReset

SpecRetry == InitRetry /\ [][NextRetry]_vars

\* C36: when an observed evaluation ends with an error response that carries
\* vars, eval fails with the remote error, onError of an active observation
\* receives it, and the dependencies of the vars are registered as a write
\* observer; a later response whose write conflicts with them invokes the
\* callback and starts the next evaluation of the observation.
C36_FailedEvaluationStaysObserved ==
    [][\A id \in Ids :
          LET o == observation[id]
          IN  /\ /\ o # 0
                 /\ pc[id] = "awaitResponse" /\ pc'[id] = "done"
                 /\ promise[id] = "resolved"
                 /\ response[id].type = "error" /\ response[id].vars # <<>>
                 => /\ outcome'[id] = "remote"
                    /\ obsActive[o] =>
                          delivered'[o] = Append(delivered[o], [call |-> "onError", id |-> id])
                    /\ Dependencies(response[id].vars) # <<>> =>
                          /\ Registered(id)'
                          /\ dependencies'[id] = Dependencies(response[id].vars)
              /\ /\ o # 0
                 /\ outcome[id] = "remote"
                 /\ obsActive[o]
                 /\ Registered(id)
                 /\ received'.type \in {"result", "error"}
                 /\ Hits(Written(received'.vars), id)
                 => /\ called'[id] = called[id] + 1
                    /\ \E next \in Ids :
                          /\ next > messageIdCounter /\ next <= messageIdCounter'
                          /\ observation'[next] = o]_vars

\* An observed evaluation failed with an error response, onError received
\* the failure, a later write invalidated it and the next evaluation of the
\* observation has returned a value that onNext received.
C36_Witness ==
    \E o \in Observations, id, next \in Ids :
        /\ observation[id] = o /\ outcome[id] = "remote" /\ called[id] = 1
        /\ observation[next] = o /\ next > id /\ outcome[next] = "value"
        /\ \E i, j \in DOMAIN delivered[o] :
              /\ delivered[o][i] = [call |-> "onError", id |-> id]
              /\ delivered[o][j] = [call |-> "onNext", id |-> next]

\* The message the host posts to answer request messageId of the sandbox.
ReplyTo(type, messageId) ==
    CASE type = "ping" -> [type |-> "pong", messageId |-> 0, inResponseTo |-> messageId,
                           to |-> sandbox, message |-> <<>>]
      [] type = "yield" -> [type |-> "continue", messageId |-> 0, inResponseTo |-> messageId,
                            to |-> sandbox, message |-> <<>>]
      [] OTHER -> [type |-> "error", messageId |-> 0, inResponseTo |-> messageId,
                   to |-> sandbox, message |-> <<"Unsupported request: ", type>>]

\* The names of the steps that handle a request of InboundMessages.
InboundTypes == {"ping", "yield", "foo"}

\* The state of the host, without the record of the step.
hostState ==
    <<fields, pingIntervalId, lastPing, promise, pc, outcome, request, onInvalidated,
      dependencies, called, observation, obsActive, observations>>

\* C37, as stated: with a sandbox, a ping, a yield and a request of an
\* unknown type are answered by one message (pong, continue, "Unsupported
\* request" error) with the identifier of the request in inResponseTo, and
\* neither they nor the ping timer of the host add or remove a pending
\* entry; without a sandbox a message posts nothing and changes nothing.
C37_ExchangesLeavePendingAlone ==
    [][/\ op'.name \in InboundTypes /\ sandbox # 0 =>
            /\ posted' = <<ReplyTo(op'.name, op'.messageId)>>
            /\ responseHandlers' = responseHandlers
       /\ op'.name = "pingTimer" => responseHandlers' = responseHandlers
       /\ op'.name \in InboundTypes /\ sandbox = 0 =>
            posted' = <<>> /\ hostState' = hostState]_vars

\* C37, amended: the same answers; a ping, a request of an unknown type,
\* the ping timer and a yield whose written variables hit no registered
\* observer of an observed script leave the pending entries as they are; a
\* yield removes no entry, and the entries it adds are the re-evaluations
\* of the observations its written variables invalidate; the ping timer
\* posts at most one ping; without a sandbox a message posts nothing and
\* changes nothing.
C37_ExchangesOnlyAddReevaluations ==
    [][/\ op'.name \in InboundTypes /\ sandbox # 0 =>
            /\ posted' = <<ReplyTo(op'.name, op'.messageId)>>
            /\ responseHandlers \subseteq responseHandlers'
            /\ \A id \in responseHandlers' \ responseHandlers :
                  /\ op'.name = "yield"
                  /\ observation'[id] # 0
                  /\ \E old \in Ids : /\ Registered(old)
                                       /\ Hits(op'.written, old)
                                       /\ observation[old] = observation'[id]
       /\ op'.name = "pingTimer" =>
            /\ responseHandlers' = responseHandlers
            /\ posted' \in {<<>>, <<[type |-> "ping", messageId |-> 0, inResponseTo |-> 0,
                                     to |-> sandbox, message |-> <<>>]>>}
       /\ op'.name \in InboundTypes /\ sandbox = 0 =>
            posted' = <<>> /\ hostState' = hostState]_vars

\* The host has answered a request of an unknown type while a request of
\* its own was pending.
C37_Witness ==
    /\ op.name = "foo"
    /\ sandbox # 0
    /\ responseHandlers # {}
    /\ Len(posted) = 1 /\ posted[1].type = "error"

\* No init request and no eval request is among the messages.
NoRequestAmong(messages) ==
    \A i \in DOMAIN messages : messages[i].type \notin {"init", "eval"}

\* The eval call of the step waits for init request p.
EvalAwaits(p) ==
    /\ messageIdCounter' = messageIdCounter + 1
    /\ pc'[messageIdCounter'] = "awaitInit"
    /\ awaiting'[messageIdCounter'] = p

\* Every call that stops waiting for a failed init request in the step
\* fails as the init request failed.
FailsAsInit ==
    /\ \A id \in Ids : pc[id] = "awaitInit" /\ pc'[id] # "awaitInit"
                          /\ Rejected(promise[awaiting[id]])
            => pc'[id] = "done" /\ outcome'[id] = promise[awaiting[id]]
    /\ \A p \in Ids : initCalls'[p] < initCalls[p] /\ Rejected(promise[p])
            => op'.result = promise[p]

\* C38, as stated: once the init request of the sandbox has failed, by its
\* timeout or by a response, every later init, eval and observe call waits
\* for the failed request and fails as it failed, and no init request and
\* no eval request is posted, until reset() is called.
C38_FailsUntilReset ==
    [][/\ FailsAsInit
       /\ initFailure # 0 =>
            /\ NoRequestAmong(posted')
            /\ op'.name \in {"eval", "observe"} => EvalAwaits(initFailure)
            /\ op'.name = "init" =>
                  initCalls'[initFailure] = initCalls[initFailure] + 1]_vars

\* C38, amended: the same until reset() or dispose() is called; on the
\* disposed host no request is posted either, and a call fails as
\* disposed.
C38_FailsUntilResetOrDispose ==
    [][/\ FailsAsInit
       /\ initFailure # 0 =>
            /\ NoRequestAmong(posted')
            /\ op'.name \in {"eval", "observe"} =>
                  IF factory THEN EvalAwaits(initFailure)
                  ELSE /\ messageIdCounter' = messageIdCounter + 1
                       /\ outcome'[messageIdCounter'] = "disposed"
            /\ op'.name = "init" =>
                  IF factory
                  THEN initCalls'[initFailure] = initCalls[initFailure] + 1
                  ELSE op'.result = "disposed"]_vars

\* An eval call made after a call has failed as the init request failed
\* waits for the same failed init request.
C38_Witness ==
    /\ initFailure # 0
    /\ op.name = "eval"
    /\ pc[messageIdCounter] = "awaitInit"
    /\ awaiting[messageIdCounter] = initFailure
    /\ \E id \in Ids : /\ request[id] = "eval"
                         /\ awaiting[id] = initFailure
                         /\ pc[id] = "done"
                         /\ outcome[id] = promise[initFailure]

====
